---- MODULE Spec2Model ----
(***************************************************************************)
(* A model of the physics / collision / player-state core of the 2D        *)
(* platformer: Player, Enemy, CollisionDetector and the Game loop driver.  *)
(*                                                                         *)
(* Numbers.  The program computes in IEEE doubles.  The model computes in  *)
(* fixed point: every length and velocity is an integer number of          *)
(* thousandths of a pixel (0.5 px is 500), every multiplier (friction,     *)
(* gravityScale, dtScale, 0.7, 1.5 ...) is an integer number of            *)
(* thousandths (0.98 is 980), and a product is truncated toward zero to    *)
(* the next thousandth.  Times are integer milliseconds.                   *)
(***************************************************************************)
EXTENDS Integers, Sequences, FiniteSets, TLC

VARIABLES
    player,        \* the Player object (entities.js Player)
    platforms,     \* Game.platforms: sequence of Platform records
    enemies,       \* Game.enemies: sequence of Enemy records
    coins,         \* Game.coins
    powerUps,      \* Game.powerUps (the collection, not Player.powerUps)
    game,          \* the Game object's own fields (flags, stage, timing)
    rafPending,    \* number of gameLoop callbacks queued by requestAnimationFrame
    now,           \* the timestamp the browser hands to animation callbacks
    obs,           \* observation of the last operation (history, not program state)
    steps          \* number of operations taken so far (model bound only)

vars == <<player, platforms, enemies, coins, powerUps, game, rafPending, now, obs, steps>>

(***************************************************************************)
(* Program constants, in thousandths.                                      *)
(***************************************************************************)
GRAVITY == 500
FRICTION == 800
AIR_RESISTANCE == 980
ACCELERATION == 400
DECELERATION == 600
JUMP_FORCE == -15000
MAX_FALL_SPEED == 12000
MAX_SPEED == 4000
DASH_SPEED == 10000
WALL_SLIDE_SPEED == 2500
WALL_JUMP_X == 6000
MIN_RISE_SPEED == -20000
FPS == 60
CANVAS_WIDTH == 800000
CANVAS_HEIGHT == 600000
PLAYER_SPEED == 6000
ENEMY_SPEED == 2000
PlayerSize == 32000
EnemySize == 24000
StartLives == 3
coyoteTimeMax == 120
jumpBufferMax == 120
maxAirJumps == 1
dashDurationMs == 180
dashCooldownMs == 700
InvulnerableMs == 2000
WallJumpLockMs == 120
RespawnX == 100000
RespawnY == 500000
FallMargin == 50000
SnapSpeed == 50
WallProbe == 4000
Infinity == 2000000000
One == 1000

(***************************************************************************)
(* Arithmetic helpers.                                                     *)
(***************************************************************************)
Abs(v) == IF v < 0 THEN -v ELSE v

Min(a, b) == IF a < b THEN a ELSE b

Max(a, b) == IF a > b THEN a ELSE b

\* Utils.clamp(value, min, max) = Math.min(Math.max(value, min), max)
clamp(value, lo, hi) == Min(Max(value, lo), hi)

\* n / d truncated toward zero
Trunc(n, d) == IF n >= 0 THEN n \div d ELSE -((-n) \div d)

\* v * m for a multiplier m given in thousandths
Scale(v, m) == Trunc(v * m, One)

\* dtScale = (deltaTime / (1000 / FPS) || 1), in thousandths
dtScale(deltaTime) == IF deltaTime * FPS = 0 THEN One ELSE deltaTime * FPS

(***************************************************************************)
(* Rectangle and CollisionDetector.                                        *)
(***************************************************************************)
Rectangle(x, y, width, height) ==
    [x |-> x, y |-> y, width |-> Max(0, width), height |-> Max(0, height)]

left(r) == r.x
right(r) == r.x + r.width
top(r) == r.y
bottom(r) == r.y + r.height

intersects(a, b) ==
    ~(left(a) > right(b) \/ right(a) < left(b) \/ top(a) > bottom(b) \/ bottom(a) < top(b))

GroundHit(body, platform) ==
    [isOnGround |-> TRUE, y |-> platform.y - body.height]

NoHit == [isOnGround |-> FALSE, y |-> 0]

\* checkPlatformCollision without the swept test for bodies that have
\* passed the platform between two frames
checkPlatformCollisionOverlapOnly(body, platform) ==
    IF /\ intersects(Rectangle(body.x, body.y, body.width, body.height),
                     Rectangle(platform.x, platform.y, platform.width, platform.height))
       /\ body.velocity.y >= 0
       /\ body.y - body.velocity.y + body.height
              <= platform.y + Max(8000, Abs(body.velocity.y)) + 2000
       /\ body.y + body.height <= platform.y + Max(8000, Abs(body.velocity.y)) + 2000
    THEN GroundHit(body, platform)
    ELSE NoHit

\* CollisionDetector.checkPlatformCollision(player, platform); `body` is a
\* player or an enemy: anything with x, y, width, height, velocity.
checkPlatformCollision(body, platform) ==
    LET playerRect == Rectangle(body.x, body.y, body.width, body.height)
        platformRect == Rectangle(platform.x, platform.y, platform.width, platform.height)
        prevX == body.x - body.velocity.x
        prevY == body.y - body.velocity.y
        prevBottom == prevY + body.height
        currentBottom == body.y + body.height
        platformTop == platform.y
        currentHorizOverlap ==
            right(playerRect) > left(platformRect) /\ left(playerRect) < right(platformRect)
        prevHorizOverlap ==
            (prevX + body.width) > left(platformRect) /\ prevX < right(platformRect)
        dynamicTolerance == Max(8000, Abs(body.velocity.y)) + 2000
    IN  IF ~intersects(playerRect, platformRect)
        THEN IF /\ body.velocity.y >= 0
                /\ prevBottom <= platformTop
                /\ currentBottom >= platformTop
                /\ (currentHorizOverlap \/ prevHorizOverlap)
             THEN GroundHit(body, platform)
             ELSE NoHit
        ELSE IF /\ body.velocity.y >= 0
                /\ prevBottom <= platformTop + dynamicTolerance
                /\ currentBottom <= platformTop + dynamicTolerance
             THEN GroundHit(body, platform)
             ELSE NoHit

checkEnemyCollision(p, enemy) ==
    LET playerRect == Rectangle(p.x, p.y, p.width, p.height)
        enemyRect == Rectangle(enemy.x, enemy.y, enemy.width, enemy.height)
    IN  IF \/ playerRect.width <= 0 \/ playerRect.height <= 0
           \/ enemyRect.width <= 0 \/ enemyRect.height <= 0
        THEN FALSE
        ELSE intersects(playerRect, enemyRect)

(***************************************************************************)
(* Player.                                                                 *)
(***************************************************************************)
Vector2(x, y) == [x |-> x, y |-> y]

NoPowerUps ==
    [jumpBoost |-> FALSE, jumpBoostTime |-> 0,
     invincible |-> FALSE, invincibleTime |-> 0,
     dash |-> FALSE, dashTime |-> 0,
     magnet |-> FALSE, magnetTime |-> 0]

\* new Player(x, y).  `respawns` is a history counter (how often takeDamage
\* moved this object to the respawn point); the program has no such field.
NewPlayer(x, y) ==
    [x |-> x, y |-> y, width |-> PlayerSize, height |-> PlayerSize,
     velocity |-> Vector2(0, 0),
     isOnGround |-> FALSE, facingRight |-> TRUE,
     lives |-> StartLives, score |-> 0,
     invulnerable |-> FALSE, invulnerableTime |-> 0,
     jumpPressed |-> FALSE,
     coyoteTime |-> 0, jumpBuffer |-> 0,
     airJumpsRemaining |-> maxAirJumps,
     isDashing |-> FALSE, dashTimer |-> 0, dashCooldownTimer |-> 0,
     dashDirection |-> 1,
     isTouchingWallLeft |-> FALSE, isTouchingWallRight |-> FALSE,
     isWallSliding |-> FALSE, wallJumpLockTimer |-> 0,
     powerUps |-> NoPowerUps,
     celebrate |-> [active |-> FALSE, timer |-> 0, duration |-> 2000],
     surfaceFrictionScale |-> One,
     respawns |-> 0]

NoInput == [left |-> FALSE, right |-> FALSE, jump |-> FALSE, down |-> FALSE, dash |-> FALSE]

\* InputManager.getMovementInput: left and right held together cancel.
getMovementInput(keys) ==
    IF keys.left /\ keys.right
    THEN [keys EXCEPT !.left = FALSE, !.right = FALSE]
    ELSE keys

\* Player.addScore is called as this.addScore?.(n), and the class defines no
\* addScore: the optional call does nothing.
addScore(p, n) == p

\* takeDamage that respawns the player also when the last life is lost
takeDamageAlwaysRespawns(p) ==
    IF p.invulnerable \/ p.powerUps.invincible THEN p
    ELSE [p EXCEPT !.lives = @ - 1, !.invulnerable = TRUE, !.invulnerableTime = InvulnerableMs,
                   !.x = RespawnX, !.y = RespawnY, !.velocity = Vector2(0, 0),
                   !.isOnGround = FALSE, !.respawns = @ + 1]

\* takeDamage that ignores invulnerability and invincibility
takeDamageUnguarded(p) ==
    IF p.lives - 1 > 0
    THEN [p EXCEPT !.lives = @ - 1, !.invulnerable = TRUE, !.invulnerableTime = InvulnerableMs,
                   !.x = RespawnX, !.y = RespawnY, !.velocity = Vector2(0, 0),
                   !.isOnGround = FALSE, !.respawns = @ + 1]
    ELSE [p EXCEPT !.lives = @ - 1, !.invulnerable = TRUE, !.invulnerableTime = InvulnerableMs]

\* Player.takeDamage.  window.game.getRespawnPosition is not defined by Game,
\* so the respawn point is the literal (100, 500).  Game.onPlayerDamaged only
\* feeds screen effects.
takeDamage(p) ==
    IF p.invulnerable \/ p.powerUps.invincible
    THEN p
    ELSE LET hurt == [p EXCEPT !.lives = @ - 1,
                               !.invulnerable = TRUE,
                               !.invulnerableTime = InvulnerableMs]
         IN  IF hurt.lives > 0
             THEN [hurt EXCEPT !.x = RespawnX, !.y = RespawnY,
                               !.velocity = Vector2(0, 0),
                               !.isOnGround = FALSE,
                               !.respawns = @ + 1]
             ELSE hurt

\* v || d for an argument v that is a finite number, NaN or undefined
\* ([kind, v], v in thousandths): 0, NaN and undefined are falsy
orDefault(v, d) == IF v.kind = "num" /\ v.v # 0 THEN v.v ELSE d

\* reset that leaves the power-ups as they are
resetKeepsPowerUps(p, x, y) ==
    [p EXCEPT !.x = orDefault(x, RespawnX),
              !.y = orDefault(y, RespawnY),
              !.velocity = Vector2(0, 0),
              !.isOnGround = FALSE, !.facingRight = TRUE,
              !.lives = StartLives, !.score = 0,
              !.invulnerable = FALSE, !.invulnerableTime = 0,
              !.jumpPressed = FALSE,
              !.coyoteTime = 0, !.jumpBuffer = 0,
              !.airJumpsRemaining = maxAirJumps]

\* Player.reset(x, y); x || 100 and y || 500 replace an omitted argument
\* and a 0 by the default.  The dash, wall and celebrate fields are not reset.
reset(p, x, y) ==
    [p EXCEPT !.x = orDefault(x, RespawnX),
              !.y = orDefault(y, RespawnY),
              !.velocity = Vector2(0, 0),
              !.isOnGround = FALSE, !.facingRight = TRUE,
              !.lives = StartLives, !.score = 0,
              !.invulnerable = FALSE, !.invulnerableTime = 0,
              !.jumpPressed = FALSE,
              !.coyoteTime = 0, !.jumpBuffer = 0,
              !.airJumpsRemaining = maxAirJumps,
              !.powerUps = NoPowerUps]

\* handleDash: the direction of a starting dash
dashAim(p, input) ==
    IF input.left THEN -1 ELSE IF input.right THEN 1 ELSE IF p.facingRight THEN 1 ELSE -1

\* a dash that starts whatever the cooldown
dashStartNoCooldown(p, input) ==
    IF ~p.isDashing /\ input.dash
    THEN [p EXCEPT !.dashDirection = dashAim(p, input),
                   !.isDashing = TRUE,
                   !.velocity.x = DASH_SPEED * dashAim(p, input),
                   !.dashTimer = Scale(dashDurationMs, IF p.powerUps.dash THEN 1300 ELSE One),
                   !.velocity.y = IF @ > 0 THEN Scale(@, 500) ELSE @]
    ELSE p

\* handleDash, activation: a dash starts when none is active, dash is
\* pressed and the cooldown has run out
dashStart(p, input) ==
    IF ~p.isDashing /\ input.dash /\ p.dashCooldownTimer <= 0
    THEN [p EXCEPT !.dashDirection = dashAim(p, input),
                   !.isDashing = TRUE,
                   !.velocity.x = DASH_SPEED * dashAim(p, input),
                   !.dashTimer = Scale(dashDurationMs, IF p.powerUps.dash THEN 1300 ELSE One),
                   !.velocity.y = IF @ > 0 THEN Scale(@, 500) ELSE @]
    ELSE p

\* handleDash, while dashing: velocity.x = dashSpeed * dashDirection
dashHold(p) ==
    IF p.isDashing THEN [p EXCEPT !.velocity.x = DASH_SPEED * p.dashDirection] ELSE p

\* handleDash, cooldown
dashCool(p, deltaTime) ==
    IF p.dashCooldownTimer > 0 THEN [p EXCEPT !.dashCooldownTimer = @ - deltaTime] ELSE p

\* handleDash, dash timer and expiry
dashExpire(p, deltaTime) ==
    IF p.isDashing
    THEN IF p.dashTimer - deltaTime <= 0
         THEN [p EXCEPT !.dashTimer = @ - deltaTime,
                        !.isDashing = FALSE,
                        !.dashCooldownTimer =
                            Scale(dashCooldownMs, IF p.powerUps.dash THEN 500 ELSE One)]
         ELSE [p EXCEPT !.dashTimer = @ - deltaTime]
    ELSE p

\* Player.handleDash
handleDash(p, input, deltaTime) ==
    dashExpire(dashCool(dashHold(dashStart(p, input)), deltaTime), deltaTime)

\* effectiveFriction of handleHorizontalMovement, in thousandths
effectiveFriction(p, env) ==
    LET baseDamp == One - FRICTION
        totalDamp == Scale(Scale(baseDamp, env.frictionScale), p.surfaceFrictionScale)
    IN  One - clamp(totalDamp, 0, 900)

\* handleHorizontalMovement: velocity.x steps toward the target speed, or
\* toward 0 when there is none
approach(v, targetVelocityX, acceleration, deceleration) ==
    IF targetVelocityX # 0
    THEN IF v < targetVelocityX
         THEN Min(v + acceleration, targetVelocityX)
         ELSE IF v > targetVelocityX
         THEN Max(v - acceleration, targetVelocityX)
         ELSE v
    ELSE IF v > 0 THEN Max(v - deceleration, 0)
         ELSE IF v < 0 THEN Min(v + deceleration, 0)
         ELSE v

\* handleHorizontalMovement: friction or air resistance without input, then
\* the snap of tiny speeds to 0
damp(p, v, targetVelocityX, env) ==
    IF targetVelocityX = 0
    THEN IF p.isOnGround THEN Scale(v, effectiveFriction(p, env)) ELSE Scale(v, AIR_RESISTANCE)
    ELSE v

snap(v) == IF Abs(v) < SnapSpeed THEN 0 ELSE v

\* handleHorizontalMovement without the clamp to MAX_SPEED
handleHorizontalMovementUnclamped(p, input, deltaTime, env) ==
    LET targetVelocityX == IF input.left THEN -PLAYER_SPEED
                           ELSE IF input.right THEN PLAYER_SPEED ELSE 0
    IN  [p EXCEPT
            !.facingRight = IF input.left THEN FALSE ELSE IF input.right THEN TRUE ELSE @,
            !.velocity.x =
                snap(damp(p, approach(@, targetVelocityX,
                                      Scale(ACCELERATION, dtScale(deltaTime)),
                                      Scale(DECELERATION, dtScale(deltaTime))),
                          targetVelocityX, env))]

\* Player.handleHorizontalMovement
handleHorizontalMovement(p, input, deltaTime, env) ==
    LET targetVelocityX == IF input.left THEN -PLAYER_SPEED
                           ELSE IF input.right THEN PLAYER_SPEED ELSE 0
    IN  [p EXCEPT
            !.facingRight = IF input.left THEN FALSE ELSE IF input.right THEN TRUE ELSE @,
            !.velocity.x =
                snap(damp(p, clamp(approach(@, targetVelocityX,
                                            Scale(ACCELERATION, dtScale(deltaTime)),
                                            Scale(DECELERATION, dtScale(deltaTime))),
                                   -MAX_SPEED, MAX_SPEED),
                          targetVelocityX, env))]

\* Which jump handleJump fires for this state and input: "ground", "wall",
\* "air" or "none".  Timers are the ones handleJump has just updated.
\* the jump decision without the coyote window
jumpKindGroundOnly(p, input, deltaTime) ==
    LET buffer == IF input.jump THEN jumpBufferMax ELSE Max(0, p.jumpBuffer - deltaTime)
        wantsJump == buffer > 0 /\ ~p.jumpPressed
        canGroundJump == p.isOnGround
        canWallJump == p.isWallSliding
        canAirJump == ~canGroundJump /\ ~canWallJump /\ p.airJumpsRemaining > 0
    IN  IF ~wantsJump THEN "none"
        ELSE IF canWallJump THEN "wall"
        ELSE IF canGroundJump THEN "ground"
        ELSE IF canAirJump THEN "air"
        ELSE "none"

jumpKind(p, input, deltaTime) ==
    LET coyote == IF p.isOnGround THEN coyoteTimeMax ELSE Max(0, p.coyoteTime - deltaTime)
        buffer == IF input.jump THEN jumpBufferMax ELSE Max(0, p.jumpBuffer - deltaTime)
        wantsJump == buffer > 0 /\ ~p.jumpPressed
        canGroundJump == p.isOnGround \/ coyote > 0
        canWallJump == p.isWallSliding
        canAirJump == ~canGroundJump /\ ~canWallJump /\ p.airJumpsRemaining > 0
    IN  IF ~wantsJump THEN "none"
        ELSE IF canWallJump THEN "wall"
        ELSE IF canGroundJump THEN "ground"
        ELSE IF canAirJump THEN "air"
        ELSE "none"

\* handleJump: the coyote time and the jump buffer
\* the timers with a jump buffer that never runs out
jumpTimersBufferKept(p, input, deltaTime) ==
    [p EXCEPT !.coyoteTime = IF p.isOnGround THEN coyoteTimeMax ELSE Max(0, @ - deltaTime),
              !.jumpBuffer = IF input.jump THEN jumpBufferMax ELSE @]

jumpTimers(p, input, deltaTime) ==
    [p EXCEPT !.coyoteTime = IF p.isOnGround THEN coyoteTimeMax ELSE Max(0, @ - deltaTime),
              !.jumpBuffer = IF input.jump THEN jumpBufferMax ELSE Max(0, @ - deltaTime)]

\* handleJump: the jump of the given kind, on the player with updated timers
\* the jump whose air jump leaves the charge
doJumpKeepsCharge(p, kind) ==
    IF kind = "none" THEN p
    ELSE [p EXCEPT
            !.velocity.y = IF p.powerUps.jumpBoost THEN Scale(JUMP_FORCE, 1500) ELSE JUMP_FORCE,
            !.isOnGround = FALSE,
            !.jumpPressed = TRUE,
            !.coyoteTime = 0,
            !.jumpBuffer = 0,
            !.velocity.x = IF kind = "wall"
                           THEN WALL_JUMP_X * (IF p.isTouchingWallLeft THEN 1
                                               ELSE IF p.isTouchingWallRight THEN -1
                                               ELSE IF p.facingRight THEN 1 ELSE -1)
                           ELSE @,
            !.wallJumpLockTimer = IF kind = "wall" THEN WallJumpLockMs ELSE @,
            !.isWallSliding = IF kind = "wall" THEN FALSE ELSE @]

doJump(p, kind) ==
    IF kind = "none" THEN p
    ELSE [p EXCEPT
            !.velocity.y = IF p.powerUps.jumpBoost THEN Scale(JUMP_FORCE, 1500) ELSE JUMP_FORCE,
            !.isOnGround = FALSE,
            !.jumpPressed = TRUE,
            !.coyoteTime = 0,
            !.jumpBuffer = 0,
            !.velocity.x = IF kind = "wall"
                           THEN WALL_JUMP_X * (IF p.isTouchingWallLeft THEN 1
                                               ELSE IF p.isTouchingWallRight THEN -1
                                               ELSE IF p.facingRight THEN 1 ELSE -1)
                           ELSE @,
            !.wallJumpLockTimer = IF kind = "wall" THEN WallJumpLockMs ELSE @,
            !.isWallSliding = IF kind = "wall" THEN FALSE ELSE @,
            !.airJumpsRemaining = IF kind = "air" THEN Max(0, @ - 1) ELSE @]

\* handleJump: releasing the jump key re-arms the jump and cuts a rise short
jumpRelease(p, input) ==
    IF ~input.jump
    THEN [p EXCEPT !.jumpPressed = FALSE, !.velocity.y = IF @ < 0 THEN Scale(@, 700) ELSE @]
    ELSE p

\* Player.handleJump
handleJump(p, input, deltaTime) ==
    jumpRelease(doJump(jumpTimers(p, input, deltaTime), jumpKind(p, input, deltaTime)), input)

\* a landing in which a bounce platform launches the player and leaves
\* isOnGround set
landOnBounceGrounded(p, platform, stage, collision) ==
    IF ~collision.isOnGround THEN p
    ELSE LET landed == [p EXCEPT !.isOnGround = TRUE,
                                 !.y = Min(@, collision.y),
                                 !.airJumpsRemaining = maxAirJumps,
                                 !.velocity.y = 0]
         IN  IF platform.type = "bounce"
             THEN [landed EXCEPT !.velocity.y = Scale(JUMP_FORCE, 900)]
             ELSE IF platform.type = "spike"
             THEN takeDamage(landed)
             ELSE landed

\* checkPlatformCollisions, one platform: the landing that `collision`
\* reports and the effect of the platform's type
landOn(p, platform, stage, collision) ==
    IF ~collision.isOnGround THEN p
    ELSE LET landed == [p EXCEPT !.isOnGround = TRUE,
                                 !.y = Min(@, collision.y),
                                 !.airJumpsRemaining = maxAirJumps,
                                 !.velocity.y = 0]
         IN  IF platform.type = "ice"
             THEN [landed EXCEPT !.surfaceFrictionScale = IF stage = 3 THEN 800 ELSE 500]
             ELSE IF platform.type = "mud"
             THEN [landed EXCEPT !.surfaceFrictionScale = 2000]
             ELSE IF platform.type = "bounce"
             THEN [landed EXCEPT !.velocity.y = Scale(JUMP_FORCE, 900), !.isOnGround = FALSE]
             ELSE IF platform.type = "spike"
             THEN takeDamage(landed)
             ELSE landed

\* checkPlatformCollisions, one platform: the wall-contact probe
touchWall(p, platform) ==
    IF /\ ~p.isOnGround
       /\ p.y + p.height > platform.y /\ p.y < platform.y + platform.height
       /\ p.wallJumpLockTimer <= 0
    THEN [p EXCEPT !.isTouchingWallRight = @ \/ Abs(p.x + p.width - platform.x) < WallProbe,
                   !.isTouchingWallLeft =
                       @ \/ Abs(p.x - (platform.x + platform.width)) < WallProbe]
    ELSE p

\* One iteration of the forEach of Player.checkPlatformCollisions
resolvePlatform(p, platform, stage) ==
    touchWall(landOn(p, platform, stage, checkPlatformCollision(p, platform)), platform)

RECURSIVE resolveFrom(_, _, _, _)
resolveFrom(p, plats, i, stage) ==
    IF i > Len(plats) THEN p
    ELSE resolveFrom(resolvePlatform(p, plats[i], stage), plats, i + 1, stage)

\* Player.checkPlatformCollisions
checkPlatformCollisions(p, plats, stage) ==
    resolveFrom([p EXCEPT !.isOnGround = FALSE, !.surfaceFrictionScale = One], plats, 1, stage)

\* The types of the platforms that reported ground contact while
\* checkPlatformCollisions ran from index i (an observation of the same fold).
RECURSIVE contactTypesFrom(_, _, _, _)
contactTypesFrom(p, plats, i, stage) ==
    IF i > Len(plats) THEN {}
    ELSE (IF checkPlatformCollision(p, plats[i]).isOnGround THEN {plats[i].type} ELSE {})
         \cup contactTypesFrom(resolvePlatform(p, plats[i], stage), plats, i + 1, stage)

contactTypes(p, plats, stage) ==
    contactTypesFrom([p EXCEPT !.isOnGround = FALSE, !.surfaceFrictionScale = One], plats, 1, stage)

\* Player.updateWallSlide
updateWallSlide(p, input, deltaTime) ==
    LET pressingLeftWall == p.isTouchingWallLeft /\ input.left
        pressingRightWall == p.isTouchingWallRight /\ input.right
        sliding == /\ ~p.isOnGround
                   /\ (pressingLeftWall \/ pressingRightWall)
                   /\ p.velocity.y > SnapSpeed
                   /\ p.wallJumpLockTimer <= 0
    IN  [p EXCEPT !.isWallSliding = sliding,
                  !.velocity.y = IF sliding THEN Min(@, WALL_SLIDE_SPEED) ELSE @,
                  !.isOnGround = IF sliding THEN FALSE ELSE @,
                  !.isTouchingWallLeft = FALSE,
                  !.isTouchingWallRight = FALSE,
                  !.wallJumpLockTimer = IF @ > 0 THEN @ - deltaTime ELSE @]

\* Game.getCurrentStageWidth
getCurrentStageWidth(stage) ==
    IF stage \in 2..10 THEN (stage + 2) * 400000 ELSE CANVAS_WIDTH

checkBoundsKeepsSpeed(p, worldWidth) ==
    LET p1 == IF p.x < 0
              THEN [p EXCEPT !.x = 0]
              ELSE IF p.x + p.width > worldWidth
              THEN [p EXCEPT !.x = worldWidth - p.width]
              ELSE p
    IN  IF p1.y > CANVAS_HEIGHT + FallMargin THEN takeDamage(p1) ELSE p1

\* Player.checkBounds
checkBounds(p, worldWidth) ==
    LET p1 == IF p.x < 0
              THEN [p EXCEPT !.x = 0, !.velocity.x = IF @ < 0 THEN 0 ELSE @]
              ELSE IF p.x + p.width > worldWidth
              THEN [p EXCEPT !.x = worldWidth - p.width, !.velocity.x = IF @ > 0 THEN 0 ELSE @]
              ELSE p
    IN  IF p1.y > CANVAS_HEIGHT + FallMargin THEN takeDamage(p1) ELSE p1

(***************************************************************************)
(* Enemy.                                                                  *)
(***************************************************************************)
\* new Enemy(x, y, type).  jumpCooldown is 1000 + Math.random() * 800.
NewEnemy(x, y, type, jumpCooldown) ==
    [x |-> x, y |-> y, originalY |-> y, width |-> EnemySize, height |-> EnemySize,
     velocity |-> Vector2(-ENEMY_SPEED, 0),
     type |-> type, direction |-> -1, patrolDistance |-> 100000, startX |-> x,
     isDead |-> FALSE,
     health |-> IF type = "tank" THEN 3 ELSE 1,
     jumpCooldown |-> jumpCooldown, jumpTimer |-> 0, flyTime |-> 0,
     hits |-> 0]

\* takeHit that kills at one remaining health
takeHitFragile(enemy) ==
    IF enemy.isDead THEN [enemy EXCEPT !.hits = @ + 1]
    ELSE [enemy EXCEPT !.health = @ - 1, !.isDead = (enemy.health - 1 <= 1), !.hits = @ + 1]

\* Enemy.takeHit: the enemy after the hit; it died iff isDead is then true.
\* `hits` is a history counter of the takeHit calls made on this enemy.
takeHit(enemy) ==
    IF enemy.isDead THEN [enemy EXCEPT !.hits = @ + 1]
    ELSE [enemy EXCEPT !.health = @ - 1,
                       !.isDead = (enemy.health - 1 <= 0),
                       !.hits = @ + 1]

\* Game.applyHitstop(durationMs)
applyHitstop(hitstop, durationMs) == Max(hitstop, durationMs)

\* Player.defeatEnemy on enemy k of the collection.  `w` is the world the
\* call works on: [player, platforms, enemies, coins, powerUps, game].
defeatEnemy(w, k) ==
    LET hit == takeHit(w.enemies[k])
        p1 == addScore([w.player EXCEPT !.velocity.y = Scale(JUMP_FORCE, 700)], 20)
    IN  [w EXCEPT !.player = p1,
                  !.enemies[k] = hit,
                  !.game.hitstop = IF hit.isDead THEN applyHitstop(@, 90) ELSE @]

RECURSIVE enemiesFrom(_, _)
enemiesFrom(w, k) ==
    IF k > Len(w.enemies) THEN w
    ELSE LET enemy == w.enemies[k]
             p == w.player
         IN  IF ~enemy.isDead /\ checkEnemyCollision(p, enemy)
             THEN IF p.velocity.y > 0 /\ p.y < enemy.y
                  THEN enemiesFrom(defeatEnemy(w, k), k + 1)
                  ELSE enemiesFrom([w EXCEPT !.player = takeDamage(p)], k + 1)
             ELSE enemiesFrom(w, k + 1)

\* Player.checkEnemyCollisions
checkEnemyCollisions(w) ==
    IF w.player.invulnerable \/ w.player.powerUps.invincible THEN w
    ELSE enemiesFrom(w, 1)

(***************************************************************************)
(* Coins and power-ups.                                                    *)
(***************************************************************************)
NewCoin(x, y) == [x |-> x, y |-> y, width |-> 16000, height |-> 16000, collected |-> FALSE]

NewPowerUp(x, y, type) ==
    [x |-> x, y |-> y, width |-> 20000, height |-> 20000, type |-> type, collected |-> FALSE]

MAGNET_RADIUS == 110000

\* Utils.distance(0, 0, dx, dy) <= r, decided on the squares; the squares
\* are split at 10^6 so that every intermediate value stays within 32 bits.
withinRadius(dx, dy, r) ==
    LET ax == Abs(dx)
        ay == Abs(dy)
        hi == (ax \div 1000) * (ax \div 1000) + (ay \div 1000) * (ay \div 1000)
        lo == 2000 * (ax \div 1000) * (ax % 1000) + (ax % 1000) * (ax % 1000)
              + 2000 * (ay \div 1000) * (ay % 1000) + (ay % 1000) * (ay % 1000)
        room == (r \div 1000) * (r \div 1000) - hi
    IN  IF ax > r \/ ay > r \/ room < 0 THEN FALSE
        ELSE IF room >= 1000 THEN TRUE
        ELSE lo <= room * 1000000

checkCoinCollision(p, coin) ==
    intersects(Rectangle(p.x, p.y, p.width, p.height),
               Rectangle(coin.x, coin.y, coin.width, coin.height))

checkPowerUpCollision(p, powerUp) ==
    intersects(Rectangle(p.x, p.y, p.width, p.height),
               Rectangle(powerUp.x, powerUp.y, powerUp.width, powerUp.height))

\* coinTaken without the test of the collected flag
coinTakenAgain(p, coin) ==
    \/ /\ p.powerUps.magnet
       /\ withinRadius((p.x + p.width \div 2) - (coin.x + coin.width \div 2),
                       (p.y + p.height \div 2) - (coin.y + coin.height \div 2),
                       MAGNET_RADIUS)
    \/ checkCoinCollision(p, coin)

\* Whether collectCoins takes this coin
coinTaken(p, coin) ==
    /\ ~coin.collected
    /\ \/ /\ p.powerUps.magnet
          /\ withinRadius((p.x + p.width \div 2) - (coin.x + coin.width \div 2),
                          (p.y + p.height \div 2) - (coin.y + coin.height \div 2),
                          MAGNET_RADIUS)
       \/ checkCoinCollision(p, coin)

RECURSIVE coinsFrom(_, _)
coinsFrom(w, i) ==
    IF i < 1 THEN w
    ELSE IF coinTaken(w.player, w.coins[i])
    THEN coinsFrom([w EXCEPT !.player = addScore(@, 10),
                             !.coins = SubSeq(@, 1, i - 1) \o SubSeq(@, i + 1, Len(@))],
                   i - 1)
    ELSE coinsFrom(w, i - 1)

\* Player.collectCoins
collectCoins(w) == coinsFrom(w, Len(w.coins))

\* Player.applyPowerUp
applyPowerUp(p, powerUp) ==
    IF powerUp.type = "jump"
    THEN [p EXCEPT !.powerUps.jumpBoost = TRUE, !.powerUps.jumpBoostTime = 10000]
    ELSE IF powerUp.type = "invincible"
    THEN [p EXCEPT !.powerUps.invincible = TRUE, !.powerUps.invincibleTime = 8000]
    ELSE IF powerUp.type = "dash"
    THEN [p EXCEPT !.powerUps.dash = TRUE, !.powerUps.dashTime = 10000]
    ELSE IF powerUp.type = "magnet"
    THEN [p EXCEPT !.powerUps.magnet = TRUE, !.powerUps.magnetTime = 10000]
    ELSE p

RECURSIVE powerUpsFrom(_, _)
powerUpsFrom(w, i) ==
    IF i < 1 THEN w
    ELSE IF checkPowerUpCollision(w.player, w.powerUps[i])
    THEN powerUpsFrom([w EXCEPT !.player = applyPowerUp(@, w.powerUps[i]),
                                !.powerUps = SubSeq(@, 1, i - 1) \o SubSeq(@, i + 1, Len(@))],
                      i - 1)
    ELSE powerUpsFrom(w, i - 1)

\* Player.collectPowerUps
collectPowerUps(w) == powerUpsFrom(w, Len(w.powerUps))

\* Player.updatePowerUps: only jumpBoost and invincible are ticked.
updatePowerUps(p, deltaTime) ==
    LET jt == p.powerUps.jumpBoostTime - deltaTime
        it == p.powerUps.invincibleTime - deltaTime
        p1 == IF p.powerUps.jumpBoost
              THEN [p EXCEPT !.powerUps.jumpBoostTime = IF jt <= 0 THEN 0 ELSE jt,
                             !.powerUps.jumpBoost = ~(jt <= 0)]
              ELSE p
    IN  IF p1.powerUps.invincible
        THEN [p1 EXCEPT !.powerUps.invincibleTime = IF it <= 0 THEN 0 ELSE it,
                        !.powerUps.invincible = ~(it <= 0)]
        ELSE p1

\* The invulnerability countdown at the end of Player.update
tickInvulnerable(p, deltaTime) ==
    IF p.invulnerable
    THEN [p EXCEPT !.invulnerableTime = @ - deltaTime,
                   !.invulnerable = ~(p.invulnerableTime - deltaTime <= 0)]
    ELSE p

(***************************************************************************)
(* Player.update, in the order of the source.                              *)
(***************************************************************************)
\* handleDash, then handleHorizontalMovement unless dashing
walk(p, input, deltaTime, env) ==
    IF ~p.isDashing THEN handleHorizontalMovement(p, input, deltaTime, env) ELSE p

steer(p, input, deltaTime, env) == walk(handleDash(p, input, deltaTime), input, deltaTime, env)

\* the gravity step without its clamp
applyGravityUnclamped(p, env) ==
    [p EXCEPT !.velocity.y = @ + Scale(GRAVITY, env.gravityScale)]

\* velocity.y += GRAVITY * gravityScale, clamped to [-20, MAX_FALL_SPEED]
applyGravity(p, env) ==
    [p EXCEPT !.velocity.y =
        clamp(@ + Scale(GRAVITY, env.gravityScale), MIN_RISE_SPEED, MAX_FALL_SPEED)]

\* the wind step
applyWind(p, env, deltaTime) ==
    IF env.windX # 0
    THEN [p EXCEPT !.velocity.x =
             clamp(@ + Scale(env.windX, dtScale(deltaTime)), -MAX_SPEED, MAX_SPEED)]
    ELSE p

\* the player when its position is about to be integrated
beforeMove(p, input, deltaTime, env) ==
    applyWind(applyGravity(handleJump(steer(p, input, deltaTime, env), input, deltaTime), env),
              env, deltaTime)

integrate(p) == [p EXCEPT !.x = @ + p.velocity.x, !.y = @ + p.velocity.y]

\* Player.update from the integrated position on: platform collisions,
\* wall slide, bounds
settle(p, w, input, deltaTime) ==
    checkBounds(updateWallSlide(checkPlatformCollisions(p, w.platforms, w.game.currentStage),
                                input, deltaTime),
                getCurrentStageWidth(w.game.currentStage))

\* Player.update, the closing timers: invulnerability, then the power-ups
tickTimers(w, deltaTime) ==
    [w EXCEPT !.player = updatePowerUps(tickInvulnerable(@, deltaTime), deltaTime)]

\* Player.update(deltaTime, platforms, enemies, coins, powerUps, inputManager)
\* on the world w, with the keys the input manager holds.
update(w, deltaTime, keys) ==
    tickTimers(
        collectPowerUps(collectCoins(checkEnemyCollisions(
            [w EXCEPT !.player =
                settle(integrate(beforeMove(@, getMovementInput(keys), deltaTime,
                                            w.game.environment)),
                       w, getMovementInput(keys), deltaTime)]))),
        deltaTime)

(***************************************************************************)
(* Enemy.update.                                                           *)
(***************************************************************************)
\* Math.sin(flyTime * 0.005) in thousandths, by Bhaskara's rational
\* approximation on whole degrees (the flyer's vertical oscillation).
sinMilli(flyTime) ==
    LET deg == ((flyTime * 2865) \div 10000) % 360
        d == IF deg < 180 THEN deg ELSE deg - 180
        half == (4000 * d * (180 - d)) \div (40500 - d * (180 - d))
    IN  IF deg < 180 THEN half ELSE -half

RECURSIVE enemyResolveFrom(_, _, _)
enemyResolveFrom(e, plats, i) ==
    IF i > Len(plats) THEN e
    ELSE LET collision == checkPlatformCollision(e, plats[i])
         IN  enemyResolveFrom(IF collision.isOnGround
                              THEN [e EXCEPT !.y = collision.y, !.velocity.y = 0]
                              ELSE e,
                              plats, i + 1)

\* Enemy.checkPlatformCollisions
enemyCheckPlatformCollisions(e, plats) ==
    IF e.type = "flyer" THEN e ELSE enemyResolveFrom(e, plats, 1)

\* Enemy.checkBounds
enemyCheckBounds(e, worldWidth) ==
    LET e1 == IF e.x < 0 THEN [e EXCEPT !.x = 0, !.direction = 1]
              ELSE IF e.x + e.width > worldWidth
              THEN [e EXCEPT !.x = worldWidth - e.width, !.direction = -1]
              ELSE e
    IN  IF e1.type # "flyer" /\ e1.y > CANVAS_HEIGHT THEN [e1 EXCEPT !.isDead = TRUE] ELSE e1

\* direction *= -1 at the ends of the patrol range
patrolTurn(e, range) ==
    IF e.x <= e.startX - range \/ e.x >= e.startX + range
    THEN [e EXCEPT !.direction = -@]
    ELSE e

\* gravity, fall, platform collisions and bounds of the grounded types
enemyFall(e, plats, worldWidth) ==
    LET vy == clamp(e.velocity.y + GRAVITY, -10000, MAX_FALL_SPEED)
    IN  enemyCheckBounds(
            enemyCheckPlatformCollisions([e EXCEPT !.velocity.y = vy, !.y = @ + vy], plats),
            worldWidth)

\* Enemy.update of a jumper: patrol, then a jump when the timer is due
jumperMove(e, deltaTime) ==
    [e EXCEPT !.jumpTimer = IF @ + deltaTime >= e.jumpCooldown THEN 0 ELSE @ + deltaTime,
              !.velocity.y = IF e.jumpTimer + deltaTime >= e.jumpCooldown
                             THEN Scale(JUMP_FORCE, 700) ELSE @]

\* Enemy.update of a chaser: toward the player when it is near, else patrol
chaserAim(e, chasing, dx) ==
    IF chasing THEN [e EXCEPT !.direction = IF dx >= 0 THEN 1 ELSE -1]
    ELSE patrolTurn(e, e.patrolDistance)

chaserMove(e, chasing) ==
    [e EXCEPT !.x = @ + Scale(ENEMY_SPEED, IF chasing THEN 1600 ELSE 1100) * e.direction]

\* Enemy.update, the horizontal behaviour of each type
enemyMove(e, deltaTime, p) ==
    IF e.type = "jumper"
    THEN jumperMove(patrolTurn([e EXCEPT !.x = @ + Scale(ENEMY_SPEED, 800) * e.direction],
                               e.patrolDistance),
                    deltaTime)
    ELSE IF e.type = "chaser"
    THEN chaserMove(chaserAim(e, Abs(p.x - e.x) < 220000 /\ Abs(p.y - e.y) < 80000, p.x - e.x),
                    Abs(p.x - e.x) < 220000 /\ Abs(p.y - e.y) < 80000)
    ELSE IF e.type = "flyer"
    THEN patrolTurn([e EXCEPT !.flyTime = @ + deltaTime,
                              !.x = @ + Scale(ENEMY_SPEED, 900) * e.direction,
                              !.y = e.originalY + sinMilli(e.flyTime + deltaTime) * 28],
                    e.patrolDistance)
    ELSE IF e.type = "tank"
    THEN patrolTurn([e EXCEPT !.x = @ + Scale(ENEMY_SPEED, 600) * e.direction],
                    Scale(e.patrolDistance, 800))
    ELSE patrolTurn([e EXCEPT !.x = @ + e.velocity.x * e.direction], e.patrolDistance)

\* Enemy.update, after the move: a flyer only checks its bounds, the others fall
enemyLand(e, plats, worldWidth) ==
    IF e.type = "flyer" THEN enemyCheckBounds(e, worldWidth)
    ELSE enemyFall(e, plats, worldWidth)

\* Enemy.update without the early return of a dead enemy
enemyUpdateDeadMoves(e, deltaTime, plats, p, worldWidth) ==
    enemyLand(enemyMove(e, deltaTime, p), plats, worldWidth)

\* Enemy.update(deltaTime, platforms, player)
enemyUpdate(e, deltaTime, plats, p, worldWidth) ==
    IF e.isDead THEN e ELSE enemyLand(enemyMove(e, deltaTime, p), plats, worldWidth)

(***************************************************************************)
(* Game: level generation.                                                 *)
(*                                                                         *)
(* The stage tables of generateStage1..10 are coordinate lists.  The model *)
(* keeps each stage's environment and floor and, for the stages it plays,  *)
(* the first entries of the stage's tables; the remaining entries of a     *)
(* table lie further along the stage and are left out.                     *)
(***************************************************************************)
maxStages == 10

NewPlatform(x, y, width, height, type) ==
    [x |-> x, y |-> y, width |-> width, height |-> height, type |-> type,
     originalX |-> x,
     health |-> IF type = "breakable" THEN 3 ELSE Infinity]

Environment(windX, gravityScale, frictionScale) ==
    [windX |-> windX, gravityScale |-> gravityScale, frictionScale |-> frictionScale]

\* the setEnvironment call of generateStage<stage>
StageEnvironment(stage) ==
    CASE stage = 2 -> Environment(50, 1000, 1000)
      [] stage = 3 -> Environment(0, 1000, 1200)
      [] stage = 4 -> Environment(-20, 1050, 1400)
      [] stage = 5 -> Environment(0, 900, 1000)
      [] stage = 6 -> Environment(80, 1000, 1000)
      [] stage = 7 -> Environment(0, 1000, 1000)
      [] stage = 8 -> Environment(0, 950, 1000)
      [] stage = 9 -> Environment(-30, 1100, 700)
      [] stage = 10 -> Environment(20, 900, 1000)
      [] OTHER -> Environment(0, 1000, 1000)

FloorType(stage) ==
    CASE stage = 3 -> "ice" [] stage = 4 -> "mud" [] stage = 5 -> "spike" [] OTHER -> "normal"

Floor(stage) ==
    NewPlatform(0, CANVAS_HEIGHT - 20000, getCurrentStageWidth(stage), 20000, FloorType(stage))

StagePlatforms(stage) ==
    CASE stage = 1 -> <<Floor(1), NewPlatform(200000, 450000, 120000, 20000, "normal")>>
      [] stage = 2 -> <<Floor(2), NewPlatform(300000, 400000, 120000, 20000, "normal"),
                        NewPlatform(600000, 300000, 120000, 20000, "bounce")>>
      [] stage = 5 -> <<Floor(5), NewPlatform(100000, 450000, 60000, 20000, "bounce"),
                        NewPlatform(300000, 350000, 60000, 20000, "normal")>>
      [] OTHER -> <<Floor(stage)>>

StageEnemies(stage) ==
    CASE stage = 1 -> <<NewEnemy(300000, 400000, "basic", 1000)>>
      [] stage = 2 -> <<NewEnemy(400000, 350000, "basic", 1000),
                        NewEnemy(1300000, 300000, "tank", 1000)>>
      [] stage = 5 -> <<NewEnemy(150000, 400000, "basic", 1000)>>
      [] OTHER -> <<>>

StageCoins(stage) ==
    CASE stage = 1 -> <<NewCoin(250000, 400000)>>
      [] stage = 2 -> <<NewCoin(350000, 350000)>>
      [] OTHER -> <<>>

StagePowerUps(stage) ==
    CASE stage = 1 -> <<NewPowerUp(350000, 300000, "jump")>>
      [] stage = 2 -> <<NewPowerUp(550000, 150000, "invincible")>>
      [] OTHER -> <<>>

\* Game.generateLevel
generateLevel(w) ==
    [w EXCEPT !.platforms = StagePlatforms(w.game.currentStage),
              !.enemies = StageEnemies(w.game.currentStage),
              !.coins = StageCoins(w.game.currentStage),
              !.powerUps = StagePowerUps(w.game.currentStage),
              !.game.environment = StageEnvironment(w.game.currentStage)]

\* The fields Game's constructor sets
NewGame ==
    [isRunning |-> FALSE, isPaused |-> FALSE, gameOver |-> FALSE,
     currentStage |-> 1, cameraX |-> 0,
     lastTime |-> 0, deltaTime |-> 0,
     stageClear |-> [active |-> FALSE, timer |-> 0, duration |-> 2000],
     hitstop |-> 0,
     environment |-> Environment(0, 1000, 1000)]

\* Game.createGameObjects
createGameObjects(w) == generateLevel([w EXCEPT !.player = NewPlayer(RespawnX, RespawnY)])

\* the world after new Game() and createGameObjects()
NewWorld ==
    createGameObjects([player |-> NewPlayer(RespawnX, RespawnY), platforms |-> <<>>,
                       enemies |-> <<>>, coins |-> <<>>, powerUps |-> <<>>, game |-> NewGame])

(***************************************************************************)
(* Game: one update.                                                       *)
(***************************************************************************)
\* Game.updateCamera
updateCamera(w) ==
    [w EXCEPT !.game.cameraX = Max(0, @ + Scale((w.player.x - 400000) - @, 100))]

\* Player.startCelebration
startCelebration(p, durationMs) ==
    [p EXCEPT !.celebrate = [active |-> TRUE, timer |-> 0,
                             duration |-> IF durationMs = 0 THEN 2000 ELSE durationMs],
              !.velocity.x = 0]

\* Player.updateCelebrate
updateCelebrate(p, deltaTime) ==
    IF ~p.celebrate.active THEN p
    ELSE [p EXCEPT !.celebrate.timer = @ + deltaTime,
                   !.celebrate.active = ~(p.celebrate.timer + deltaTime >= p.celebrate.duration)]

\* Game.startStageClear
startStageClear(w) ==
    IF w.game.stageClear.active THEN w
    ELSE [w EXCEPT !.game.stageClear.active = TRUE,
                   !.game.stageClear.timer = w.game.stageClear.duration,
                   !.player = startCelebration(@, w.game.stageClear.duration)]

\* Game.checkStageProgress
checkStageProgress(w) ==
    IF w.player.x >= getCurrentStageWidth(w.game.currentStage) - 100000
    THEN startStageClear(w)
    ELSE w

\* Game.showGameClear
showGameClear(w) == [w EXCEPT !.game.gameOver = TRUE, !.game.isRunning = FALSE]

\* nextStage that goes on past the last stage
nextStagePastLast(w) ==
    generateLevel([w EXCEPT !.game.currentStage = @ + 1,
                            !.player.x = RespawnX, !.player.y = RespawnY,
                            !.player.velocity = Vector2(0, 0),
                            !.game.cameraX = 0])

\* Game.nextStage
nextStage(w) ==
    IF w.game.currentStage < maxStages
    THEN generateLevel([w EXCEPT !.game.currentStage = @ + 1,
                                 !.player.x = RespawnX, !.player.y = RespawnY,
                                 !.player.velocity = Vector2(0, 0),
                                 !.game.cameraX = 0])
    ELSE showGameClear(w)

\* Game.updateStageClear
updateStageClear(w) ==
    LET dt == w.game.deltaTime
        w1 == [w EXCEPT !.game.stageClear.timer = @ - dt,
                        !.player = updateCelebrate(@, dt)]
    IN  IF w1.game.stageClear.timer <= 0
        THEN nextStage([w1 EXCEPT !.game.stageClear.active = FALSE])
        ELSE w1

\* Platform.update: a moving platform is put at originalX + sway, where
\* sway = Math.sin(Date.now() * moveSpeed) * moveDistance is read off the
\* wall clock.
platformUpdate(platform, sway) ==
    IF platform.type = "moving" THEN [platform EXCEPT !.x = platform.originalX + sway]
    ELSE platform

\* endGame that raises gameOver and leaves isRunning alone
endGameStillRunning(w) == [w EXCEPT !.game.gameOver = TRUE]

\* Game.endGame
endGame(w) == [w EXCEPT !.game.gameOver = TRUE, !.game.isRunning = FALSE]

\* checkGameOver that ends the game only below zero lives
checkGameOverBelowZero(w) == IF w.player.lives < 0 THEN endGame(w) ELSE w

\* Game.checkGameOver
checkGameOver(w) == IF w.player.lives <= 0 THEN endGame(w) ELSE w

alive(enemy) == ~enemy.isDead
uncollected(coin) == ~coin.collected
standing(platform) == platform.health > 0

\* Game.cleanupDeadEntities
cleanupDeadEntities(w) ==
    [w EXCEPT !.enemies = SelectSeq(@, alive),
              !.coins = SelectSeq(@, uncollected),
              !.platforms = SelectSeq(@, standing)]

\* Game.update up to the call of Player.update: stage progress, platform
\* updates and enemy updates
beforePlayer(w, sway) ==
    LET w2 == checkStageProgress(updateCamera(w))
        w3 == [w2 EXCEPT !.platforms = [i \in DOMAIN @ |-> platformUpdate(@[i], sway)]]
    IN  [w3 EXCEPT !.enemies = [i \in DOMAIN @ |->
                       enemyUpdate(@[i], w.game.deltaTime, w3.platforms, w3.player,
                                   getCurrentStageWidth(w3.game.currentStage))]]

\* Game.update that keeps hitstop where it is
gameUpdateHitstopHeld(w, keys, sway) ==
    IF w.game.hitstop > 0
    THEN w
    ELSE IF updateCamera(w).game.stageClear.active
         THEN updateStageClear(updateCamera(w))
         ELSE cleanupDeadEntities(checkGameOver(
                  update(beforePlayer(w, sway), w.game.deltaTime, keys)))

\* Game.update, for the frame's deltaTime already stored in game.deltaTime
gameUpdate(w, keys, sway) ==
    IF w.game.hitstop > 0
    THEN [w EXCEPT !.game.hitstop = Max(0, @ - w.game.deltaTime)]
    ELSE IF updateCamera(w).game.stageClear.active
         THEN updateStageClear(updateCamera(w))
         ELSE cleanupDeadEntities(checkGameOver(
                  update(beforePlayer(w, sway), w.game.deltaTime, keys)))

\* Whether this Game.update gets as far as Player.update
reachesPlayer(w) == w.game.hitstop <= 0 /\ ~updateCamera(w).game.stageClear.active

(***************************************************************************)
(* Observations.  obs records, for the last operation: its name, the       *)
(* player before it, how many Game.update calls it made, and - when a      *)
(* Player.update ran - the player at the moment its position was           *)
(* integrated, velocity.y right after the gravity step, the jump that      *)
(* fired and the platform types that reported ground contact.              *)
(***************************************************************************)
Quiet(op, p) ==
    [op |-> op, pre |-> p, updates |-> 0, ran |-> FALSE, dashing |-> FALSE,
     atMove |-> p, vyAfterGravity |-> p.velocity.y, jump |-> "none", contacts |-> {}]

\* the observation, from the player at the moment of integration on
observeMoved(op, w, dashing, kind, vy, atMove) ==
    [op |-> op, pre |-> w.player, updates |-> 1, ran |-> TRUE,
     dashing |-> dashing, atMove |-> atMove, vyAfterGravity |-> vy, jump |-> kind,
     contacts |-> contactTypes(integrate(atMove), w.platforms, w.game.currentStage)]

\* the observation, from the steered player (dash and horizontal movement
\* done) on: jump, gravity, wind
observeSteered(op, w, deltaTime, input, steered) ==
    observeMoved(op, w, steered.isDashing, jumpKind(steered, input, deltaTime),
                 applyGravity(handleJump(steered, input, deltaTime), w.game.environment).velocity.y,
                 applyWind(applyGravity(handleJump(steered, input, deltaTime), w.game.environment),
                           w.game.environment, deltaTime))

\* the observation of Player.update(deltaTime, ...) on world w
Observe(op, w, deltaTime, keys) ==
    observeSteered(op, w, deltaTime, getMovementInput(keys),
                   steer(w.player, getMovementInput(keys), deltaTime, w.game.environment))

(***************************************************************************)
(* Game loop.  A run r is [w, queued, updates, obs]: the world, the        *)
(* callbacks requestAnimationFrame has queued for the next frame, the      *)
(* Game.update calls made, and the observation.                            *)
(***************************************************************************)
\* gameLoop that updates while the game is paused
gameLoopThroughPause(r, currentTime, keys, sway) ==
    IF ~r.w.game.isRunning THEN r
    ELSE LET timed == [r.w EXCEPT !.game.deltaTime = currentTime - r.w.game.lastTime,
                                  !.game.lastTime = currentTime]
             runs == ~timed.game.gameOver
         IN  [w |-> IF runs THEN gameUpdate(timed, keys, sway) ELSE timed,
              queued |-> r.queued + 1,
              updates |-> r.updates + (IF runs THEN 1 ELSE 0),
              obs |-> IF runs /\ reachesPlayer(timed)
                      THEN [Observe(r.obs.op, beforePlayer(timed, sway),
                                    timed.game.deltaTime, keys)
                            EXCEPT !.pre = r.obs.pre, !.updates = r.updates + 1]
                      ELSE [r.obs EXCEPT !.updates = r.updates + (IF runs THEN 1 ELSE 0)]]

\* Game.gameLoop(currentTime)
gameLoop(r, currentTime, keys, sway) ==
    IF ~r.w.game.isRunning THEN r
    ELSE LET timed == [r.w EXCEPT !.game.deltaTime = currentTime - r.w.game.lastTime,
                                  !.game.lastTime = currentTime]
             runs == ~timed.game.isPaused /\ ~timed.game.gameOver
         IN  [w |-> IF runs THEN gameUpdate(timed, keys, sway) ELSE timed,
              queued |-> r.queued + 1,
              updates |-> r.updates + (IF runs THEN 1 ELSE 0),
              obs |-> IF runs /\ reachesPlayer(timed)
                      THEN [Observe(r.obs.op, beforePlayer(timed, sway),
                                    timed.game.deltaTime, keys)
                            EXCEPT !.pre = r.obs.pre, !.updates = r.updates + 1]
                      ELSE [r.obs EXCEPT !.updates = r.updates + (IF runs THEN 1 ELSE 0)]]

\* Game.start: isRunning = true, then gameLoop() with currentTime = 0
start(r, keys, sway) == gameLoop([r EXCEPT !.w.game.isRunning = TRUE], 0, keys, sway)

\* Game.restart
restart(r, keys, sway) ==
    start([r EXCEPT !.w = createGameObjects(
                       [@ EXCEPT !.game.gameOver = FALSE,
                                 !.game.isRunning = FALSE,
                                 !.game.isPaused = FALSE,
                                 !.game.currentStage = 1,
                                 !.game.cameraX = 0,
                                 !.powerUps = <<>>, !.coins = <<>>,
                                 !.enemies = <<>>, !.platforms = <<>>])],
          keys, sway)

\* Game.togglePause
togglePause(w) == [w EXCEPT !.game.isPaused = ~@]

\* the n callbacks queued for this animation frame, run one after another
RECURSIVE callbacks(_, _, _, _, _)
callbacks(r, n, currentTime, keys, sway) ==
    IF n = 0 THEN r
    ELSE callbacks(gameLoop(r, currentTime, keys, sway), n - 1, currentTime, keys, sway)

(***************************************************************************)
(* The state of the program as one world record, and back.                 *)
(***************************************************************************)
World ==
    [player |-> player, platforms |-> platforms, enemies |-> enemies,
     coins |-> coins, powerUps |-> powerUps, game |-> game]

Is(w) ==
    /\ player = w.player
    /\ platforms = w.platforms
    /\ enemies = w.enemies
    /\ coins = w.coins
    /\ powerUps = w.powerUps
    /\ game = w.game

Becomes(w) ==
    /\ player' = w.player
    /\ platforms' = w.platforms
    /\ enemies' = w.enemies
    /\ coins' = w.coins
    /\ powerUps' = w.powerUps
    /\ game' = w.game

(***************************************************************************)
(* Inputs and mid-run snapshots.                                           *)
(***************************************************************************)
Keys(l, r, jump, dash) ==
    [left |-> l, right |-> r, jump |-> jump, down |-> FALSE, dash |-> dash]

\* a player pose: where it is, how it moves, whether it stands
Pose(x, y, vx, vy, ground) == [x |-> x, y |-> y, vx |-> vx, vy |-> vy, ground |-> ground]

\* the protections a player can carry into a frame
Powers == {"none", "invulnerable", "invincible", "jumpBoost"}

\* a player in the given pose; a standing player has its coyote time full,
\* as handleJump leaves it
Posed(pose, lives, power) ==
    [NewPlayer(pose.x, pose.y) EXCEPT
        !.velocity = Vector2(pose.vx, pose.vy),
        !.isOnGround = pose.ground,
        !.coyoteTime = IF pose.ground THEN coyoteTimeMax ELSE 0,
        !.lives = lives,
        !.invulnerable = (power = "invulnerable"),
        !.invulnerableTime = IF power = "invulnerable" THEN InvulnerableMs \div 2 ELSE 0,
        !.powerUps.invincible = (power = "invincible"),
        !.powerUps.invincibleTime = IF power = "invincible" THEN 4000 ELSE 0,
        !.powerUps.jumpBoost = (power = "jumpBoost"),
        !.powerUps.jumpBoostTime = IF power = "jumpBoost" THEN 5000 ELSE 0,
        !.powerUps.dash = (power = "dash"),
        !.powerUps.dashTime = IF power = "dash" THEN 10000 ELSE 0,
        !.powerUps.magnet = (power = "magnet"),
        !.powerUps.magnetTime = IF power = "magnet" THEN 10000 ELSE 0]

\* an enemy that has fallen from its spawn point onto the floor
settled(enemy) ==
    [enemy EXCEPT !.y = CANVAS_HEIGHT - 20000 - EnemySize, !.velocity.y = 0]

\* the running game in the middle of a stage: the level as generated, the
\* enemies come to rest on the floor, the player somewhere in it
Snapshot(stage, p) ==
    LET w == generateLevel([NewWorld EXCEPT !.game.currentStage = stage,
                                            !.game.isRunning = TRUE])
    IN  [w EXCEPT !.enemies = [i \in DOMAIN @ |-> settled(@[i])], !.player = p]

StandY == CANVAS_HEIGHT - 20000 - PlayerSize

(***************************************************************************)
(* Specification Spec: a session.  The page has constructed the game and   *)
(* called start(); from then on the browser delivers animation frames and  *)
(* the user pauses and restarts.  Besides the fresh game, Init holds       *)
(* snapshots of a running game next to each hazard, with any number of     *)
(* lives left.                                                             *)
(***************************************************************************)
MaxSteps == 3

FrameTimes == {16, 2000}
FrameKeys == {Keys(FALSE, FALSE, FALSE, FALSE), Keys(FALSE, TRUE, FALSE, FALSE),
              Keys(FALSE, TRUE, TRUE, TRUE)}
Sways == {0}

SessionPoses ==
    {[stage |-> 1, pose |-> Pose(280000, StandY, 0, 0, TRUE)],
     [stage |-> 1, pose |-> Pose(696000, StandY, MAX_SPEED, 0, TRUE)],
     [stage |-> 5, pose |-> Pose(400000, StandY - 2000, 0, 3000, FALSE)],
     [stage |-> 10, pose |-> Pose(4696000, StandY, MAX_SPEED, 0, TRUE)]}

Started ==
    start([w |-> NewWorld, queued |-> 0, updates |-> 0, obs |-> Quiet("start", NewWorld.player)],
          Keys(FALSE, FALSE, FALSE, FALSE), 0)

\* the run r is what the program has just done
Holds(r) ==
    /\ Is(r.w)
    /\ rafPending = r.queued
    /\ obs = r.obs

Deliver(r) ==
    /\ Becomes(r.w)
    /\ rafPending' = r.queued
    /\ obs' = r.obs

\* the running game in the given snapshot, one callback queued
Running(w) == [w |-> w, queued |-> 1, updates |-> 0, obs |-> Quiet("start", w.player)]

Init ==
    /\ \/ Holds(Started)
       \/ \E s \in SessionPoses, lives \in 1..StartLives, power \in {"none", "invulnerable"} :
            Holds(Running(Snapshot(s.stage, Posed(s.pose, lives, power))))
    /\ now = 0
    /\ steps = 0

\* the browser runs the callbacks queued by requestAnimationFrame
AnimationFrame(deltaTime, keys, sway) ==
    /\ steps < MaxSteps
    /\ rafPending > 0
    /\ Deliver(callbacks([w |-> World, queued |-> 0, updates |-> 0,
                          obs |-> Quiet("frame", player)],
                         rafPending, now + deltaTime, keys, sway))
    /\ now' = now + deltaTime
    /\ steps' = steps + 1

\* the user presses the pause key
TogglePause ==
    /\ steps < MaxSteps
    /\ Becomes(togglePause(World))
    /\ obs' = Quiet("togglePause", player)
    /\ steps' = steps + 1
    /\ UNCHANGED <<rafPending, now>>

\* the user presses the restart button
Restart(keys, sway) ==
    /\ steps < MaxSteps
    /\ Deliver(restart([w |-> World, queued |-> rafPending, updates |-> 0,
                        obs |-> Quiet("restart", player)], keys, sway))
    /\ steps' = steps + 1
    /\ UNCHANGED now

Next ==
    \/ \E deltaTime \in FrameTimes, keys \in FrameKeys, sway \in Sways :
         AnimationFrame(deltaTime, keys, sway)
    \/ TogglePause
    \/ \E keys \in FrameKeys, sway \in Sways : Restart(keys, sway)

Spec == Init /\ [][Next]_vars

(***************************************************************************)
(* Specification SpecUpdate: Player.update on its own.  Init draws a       *)
(* running stage and a player in it - standing clear of everything, next   *)
(* to an enemy, falling onto one, beside a platform's side, in the wind of *)
(* stage 2, above the spike floor of stage 5, below the bottom bound,      *)
(* running at full speed - with 1 or 3 lives and each protection; every    *)
(* step is one Player.update with any keys held.                           *)
(***************************************************************************)
MaxUpdates == 2

UpdateTimes == {16, 2000}
UpdateKeys ==
    {Keys(l, r, j, d) : l \in {FALSE}, r \in BOOLEAN, j \in BOOLEAN, d \in BOOLEAN}
    \cup {Keys(TRUE, FALSE, FALSE, FALSE), Keys(TRUE, FALSE, TRUE, FALSE),
          Keys(TRUE, FALSE, FALSE, TRUE)}

UpdatePoses ==
    {[stage |-> 1, pose |-> Pose(100000, StandY, 0, 0, TRUE)],
     [stage |-> 1, pose |-> Pose(280000, StandY, 0, 0, TRUE)],
     [stage |-> 1, pose |-> Pose(296000, 520000, 0, 8000, FALSE)],
     [stage |-> 1, pose |-> Pose(321000, 445000, 0, 3000, FALSE)],
     [stage |-> 1, pose |-> Pose(500000, StandY, MAX_SPEED, 0, TRUE)],
     [stage |-> 1, pose |-> Pose(400000, CANVAS_HEIGHT + FallMargin - 5000, 0, MAX_FALL_SPEED, FALSE)],
     [stage |-> 2, pose |-> Pose(100000, StandY, 0, 0, TRUE)],
     [stage |-> 5, pose |-> Pose(400000, StandY - 2000, 0, 3000, FALSE)],
     [stage |-> 1, pose |-> Pose(1000, StandY, -3000, 0, TRUE)],
     [stage |-> 1, pose |-> Pose(CANVAS_WIDTH - PlayerSize - 1000, StandY, 3000, 0, TRUE)],
     [stage |-> 2, pose |-> Pose(4 * 400000 - PlayerSize - 1000, StandY, 3000, 0, TRUE)]}

InitUpdate ==
    /\ \E s \in UpdatePoses, lives \in {1, StartLives}, power \in Powers :
         Holds(Running(Snapshot(s.stage, Posed(s.pose, lives, power))))
    /\ now = 0
    /\ steps = 0

\* Game.update's call this.player.update(deltaTime, ...), made while the
\* game is not over
PlayerUpdate(deltaTime, keys) ==
    /\ steps < MaxUpdates
    /\ player.lives > 0
    /\ Becomes(update(World, deltaTime, keys))
    /\ obs' = Observe("update", World, deltaTime, keys)
    /\ steps' = steps + 1
    /\ UNCHANGED <<rafPending, now>>

NextUpdate == \E deltaTime \in UpdateTimes, keys \in UpdateKeys : PlayerUpdate(deltaTime, keys)

SpecUpdate == InitUpdate /\ [][NextUpdate]_vars

(***************************************************************************)
(* Specification SpecOps: takeDamage and checkPlatformCollisions called    *)
(* on their own.  The player has any number of lives and any protection;   *)
(* checkPlatformCollisions runs on every list of up to MaxPlatforms        *)
(* platforms out of a normal, a bounce and a spike platform at one         *)
(* height and a normal one below, with the player just moved onto or       *)
(* through them at speeds from a gentle landing to 500 px per frame.       *)
(***************************************************************************)
MaxPlatforms == 2

OpsPlatforms ==
    {NewPlatform(200000, 450000, 120000, 20000, "normal"),
     NewPlatform(200000, 450000, 120000, 20000, "bounce"),
     NewPlatform(200000, 450000, 120000, 20000, "spike"),
     NewPlatform(200000, 460000, 120000, 20000, "normal")}

\* the lists of up to MaxPlatforms different platforms, in every order
OpsPlatformLists ==
    UNION {{plats \in [1..n -> OpsPlatforms] :
                \A i, j \in 1..n : plats[i] = plats[j] => i = j} : n \in 1..MaxPlatforms}

\* the player as integration left it: 1 px into the platform top at 3 px per
\* frame, 12 px in at MAX_FALL_SPEED, 10 px in and 300 px past at 500 px per
\* frame, and rising through
OpsPoses ==
    {Pose(240000, 450000 - PlayerSize + 1000, 2000, 3000, FALSE),
     Pose(240000, 450000 - PlayerSize + 12000, 0, MAX_FALL_SPEED, FALSE),
     Pose(240000, 450000 - PlayerSize + 10000, 0, 500000, FALSE),
     Pose(240000, 450000 - PlayerSize + 300000, -MAX_SPEED, 500000, FALSE),
     Pose(240000, 450000 - PlayerSize + 5000, 0, -8000, FALSE)}

\* the player moved to a pose, everything else about it kept
Placed(p, pose) ==
    [p EXCEPT !.x = pose.x, !.y = pose.y, !.velocity = Vector2(pose.vx, pose.vy),
              !.isOnGround = pose.ground]

InitOps ==
    /\ \E lives \in 1..StartLives, power \in {"none", "invulnerable", "invincible"} :
         Holds(Running([Snapshot(1, Posed(Pose(240000, 300000, 2000, 5000, FALSE), lives, power))
                        EXCEPT !.enemies = <<>>]))
    /\ now = 0
    /\ steps = 0

\* Player.takeDamage()
TakeDamage ==
    /\ player.lives > 0
    /\ player' = takeDamage(player)
    /\ obs' = Quiet("takeDamage", player)
    /\ UNCHANGED <<platforms, enemies, coins, powerUps, game, rafPending, now, steps>>

\* Player.checkPlatformCollisions(platforms), after a move to the pose
Resolve(pose, plats) ==
    /\ player.lives > 0
    /\ player' = checkPlatformCollisions(Placed(player, pose), plats, game.currentStage)
    /\ platforms' = plats
    /\ obs' = [Quiet("resolve", Placed(player, pose))
               EXCEPT !.contacts = contactTypes(Placed(player, pose), plats, game.currentStage)]
    /\ UNCHANGED <<enemies, coins, powerUps, game, rafPending, now, steps>>

NextOps ==
    \/ TakeDamage
    \/ \E pose \in OpsPoses, plats \in OpsPlatformLists : Resolve(pose, plats)

SpecOps == InitOps /\ [][NextOps]_vars

(***************************************************************************)
(* Specification SpecStomp: checkEnemyCollisions called on its own, with   *)
(* one enemy of every type resting on the floor of stage 1.  The player    *)
(* comes down on an enemy or walks into it; between calls the 2000 ms of   *)
(* invulnerability may run out.                                            *)
(***************************************************************************)
EnemyTypes == <<"basic", "jumper", "chaser", "flyer", "tank">>

StompEnemies == [i \in DOMAIN EnemyTypes |-> settled(NewEnemy(150000 * i, 400000, EnemyTypes[i], 1000))]

\* the player 2 px into enemy i from above, falling
Above(i) == Pose(StompEnemies[i].x - 4000, StompEnemies[i].y - PlayerSize + 2000, 0, 5000, FALSE)

\* the player standing in enemy i
Beside(i) == Pose(StompEnemies[i].x - 20000, StandY, 0, 0, TRUE)

InitStomp ==
    /\ \E lives \in 1..StartLives :
         Holds(Running([Snapshot(1, Posed(Pose(RespawnX, StandY, 0, 0, TRUE), lives, "none"))
                        EXCEPT !.enemies = StompEnemies]))
    /\ now = 0
    /\ steps = 0

\* Player.checkEnemyCollisions(enemies), after a move to the pose
Collide(pose) ==
    /\ player.lives > 0
    /\ Becomes(checkEnemyCollisions([World EXCEPT !.player = Placed(player, pose)]))
    /\ obs' = Quiet("checkEnemyCollisions", Placed(player, pose))
    /\ UNCHANGED <<rafPending, now, steps>>

\* the invulnerability tick of Player.update, deltaTime later
Recover(deltaTime) ==
    /\ player.invulnerable
    /\ player' = tickInvulnerable(player, deltaTime)
    /\ obs' = Quiet("tickInvulnerable", player)
    /\ UNCHANGED <<platforms, enemies, coins, powerUps, game, rafPending, now, steps>>

NextStomp ==
    \/ \E i \in DOMAIN StompEnemies : \E pose \in {Above(i), Beside(i)} : Collide(pose)
    \/ Recover(InvulnerableMs)

SpecStomp == InitStomp /\ [][NextStomp]_vars

(***************************************************************************)
(* Specification SpecCollect: collectCoins, collectPowerUps and            *)
(* cleanupDeadEntities called on their own.  The coin and power-up lists   *)
(* hold up to MaxItems items: coins the player overlaps, coins within and  *)
(* at the rim of the magnet radius, a coin out of reach, coins whose       *)
(* collected flag is already set; power-ups of a known type, of an unknown *)
(* type and without a type.  The player has the magnet or not.             *)
(***************************************************************************)
MaxItems == 2

\* the player stands at x = 240 (centre (256, 564)) or far away
CollectPoses == {Pose(240000, StandY, 0, 0, TRUE), Pose(600000, StandY, 0, 0, TRUE)}

\* a coin the standing player overlaps, one 82 px from its centre, one at
\* exactly MAGNET_RADIUS, one 1 px further, and the first two already collected
CollectCoins ==
    {NewCoin(250000, 550000),
     NewCoin(330000, 550000),
     NewCoin(248000 + MAGNET_RADIUS, 556000),
     NewCoin(249000 + MAGNET_RADIUS, 556000),
     [NewCoin(250000, 550000) EXCEPT !.collected = TRUE],
     [NewCoin(330000, 550000) EXCEPT !.collected = TRUE]}

\* power-ups the standing player overlaps; "" is a power-up without a type
CollectPowerUps ==
    {NewPowerUp(250000, 550000, "magnet"),
     NewPowerUp(245000, 540000, "dash"),
     NewPowerUp(255000, 545000, "shield"),
     NewPowerUp(260000, 550000, "")}

\* the lists of up to MaxItems different items out of S, in every order
ItemLists(S) ==
    UNION {{items \in [1..n -> S] : \A i, j \in 1..n : items[i] = items[j] => i = j} :
               n \in 0..MaxItems}

InitCollect ==
    /\ \E magnet \in BOOLEAN, cs \in ItemLists(CollectCoins), ps \in ItemLists(CollectPowerUps) :
         Holds(Running([Snapshot(1, [Posed(Pose(RespawnX, StandY, 0, 0, TRUE), StartLives, "none")
                                     EXCEPT !.powerUps.magnet = magnet,
                                            !.powerUps.magnetTime = IF magnet THEN 10000 ELSE 0])
                        EXCEPT !.enemies = <<>>, !.coins = cs, !.powerUps = ps]))
    /\ now = 0
    /\ steps = 0

\* Player.collectCoins(coins), after a move to the pose
CollectCoinsAt(pose) ==
    /\ Becomes(collectCoins([World EXCEPT !.player = Placed(player, pose)]))
    /\ obs' = Quiet("collectCoins", Placed(player, pose))
    /\ UNCHANGED <<rafPending, now, steps>>

\* Player.collectPowerUps(powerUps), after a move to the pose
CollectPowerUpsAt(pose) ==
    /\ Becomes(collectPowerUps([World EXCEPT !.player = Placed(player, pose)]))
    /\ obs' = Quiet("collectPowerUps", Placed(player, pose))
    /\ UNCHANGED <<rafPending, now, steps>>

\* Game.cleanupDeadEntities()
Cleanup ==
    /\ Becomes(cleanupDeadEntities(World))
    /\ obs' = Quiet("cleanupDeadEntities", player)
    /\ UNCHANGED <<rafPending, now, steps>>

NextCollect ==
    \/ \E pose \in CollectPoses : CollectCoinsAt(pose)
    \/ \E pose \in CollectPoses : CollectPowerUpsAt(pose)
    \/ Cleanup

SpecCollect == InitCollect /\ [][NextCollect]_vars

(***************************************************************************)
(* Specification SpecReset: reset, takeDamage and applyPowerUp called on   *)
(* their own, on a player with any number of lives and any protection,     *)
(* moving or at rest; reset is called up to MaxResets times.               *)
(***************************************************************************)
MaxResets == 2

\* the arguments Player.reset is called with: none given, a point inside the
\* stage, a point on its left edge and a point on its top edge
ResetPoints ==
    {Vector2([kind |-> "undefined", v |-> 0], [kind |-> "undefined", v |-> 0]),
     Vector2([kind |-> "num", v |-> 240000], [kind |-> "num", v |-> 300000]),
     Vector2([kind |-> "num", v |-> 0], [kind |-> "num", v |-> 300000]),
     Vector2([kind |-> "num", v |-> 240000], [kind |-> "num", v |-> 0])}

ResetPoses == {Pose(240000, 300000, 2000, 5000, FALSE), Pose(600000, StandY, -MAX_SPEED, 0, TRUE)}

\* the player 80 ms into a dash to the left, as handleDash leaves it
MidDash(p) ==
    [p EXCEPT !.isDashing = TRUE, !.dashTimer = dashDurationMs - 80, !.dashDirection = -1,
              !.facingRight = FALSE]

InitReset ==
    /\ \E pose \in ResetPoses, lives \in 1..StartLives, power \in Powers, dashing \in BOOLEAN :
         Holds(Running([Snapshot(1, IF dashing THEN MidDash(Posed(pose, lives, power))
                                    ELSE Posed(pose, lives, power))
                        EXCEPT !.enemies = <<>>]))
    /\ now = 0
    /\ steps = 0

\* Player.reset(x, y); obs keeps the arguments of the call (at)
Reset(x, y) ==
    /\ steps < MaxResets
    /\ player' = reset(player, x, y)
    /\ obs' = Quiet("reset", player) @@ [at |-> Vector2(x, y)]
    /\ steps' = steps + 1
    /\ UNCHANGED <<platforms, enemies, coins, powerUps, game, rafPending, now>>

\* Player.applyPowerUp(powerUp)
ApplyPowerUp(type) ==
    /\ player' = applyPowerUp(player, NewPowerUp(player.x, player.y, type))
    /\ obs' = Quiet("applyPowerUp", player)
    /\ UNCHANGED <<platforms, enemies, coins, powerUps, game, rafPending, now, steps>>

NextReset ==
    \/ \E at \in ResetPoints : Reset(at.x, at.y)
    \/ TakeDamage
    \/ \E type \in {"jump", "invincible", "dash", "magnet"} : ApplyPowerUp(type)

SpecReset == InitReset /\ [][NextReset]_vars

(***************************************************************************)
(* Specification SpecClock: Player.update under any clock.  deltaTime is   *)
(* what Game.gameLoop computes as currentTime - lastTime: a frame, a       *)
(* stalled clock (0), a clock set back (negative, as in the gameLoop(0)    *)
(* that restart() makes) and a long stall.  The player holds any timed     *)
(* effect; the stages have no power-up left to grant one again.            *)
(***************************************************************************)
ClockTimes == {-16, 0, 16, 1000}

ClockKeys ==
    {Keys(FALSE, FALSE, FALSE, FALSE), Keys(FALSE, TRUE, FALSE, FALSE),
     Keys(FALSE, FALSE, TRUE, FALSE), Keys(FALSE, TRUE, FALSE, TRUE)}

ClockPowers == Powers \cup {"dash", "magnet"}

ClockPoses ==
    {[stage |-> 1, pose |-> Pose(100000, StandY, 0, 0, TRUE)],
     [stage |-> 1, pose |-> Pose(280000, StandY, 0, 0, TRUE)],
     [stage |-> 1, pose |-> Pose(321000, 445000, 0, 3000, FALSE)],
     [stage |-> 2, pose |-> Pose(100000, StandY, 0, 0, TRUE)]}

InitClock ==
    /\ \E s \in ClockPoses, lives \in {1, StartLives}, power \in ClockPowers :
         Holds(Running([Snapshot(s.stage, Posed(s.pose, lives, power))
                        EXCEPT !.powerUps = <<>>]))
    /\ now = 0
    /\ steps = 0

\* Game.update's call this.player.update(this.deltaTime, ...), with the
\* clock moved by deltaTime
ClockUpdate(deltaTime, keys) ==
    /\ steps < MaxUpdates
    /\ player.lives > 0
    /\ Becomes(update(World, deltaTime, keys))
    /\ obs' = Observe("update", World, deltaTime, keys)
    /\ now' = now + deltaTime
    /\ steps' = steps + 1
    /\ UNCHANGED rafPending

NextClock == \E deltaTime \in ClockTimes, keys \in ClockKeys : ClockUpdate(deltaTime, keys)

SpecClock == InitClock /\ [][NextClock]_vars

(***************************************************************************)
(* JavaScript numbers.  A value is a finite number (in thousandths), NaN,  *)
(* +Infinity or -Infinity (v = 1, -1), or undefined (a non-number, which   *)
(* arithmetic and comparisons convert to NaN).                             *)
(***************************************************************************)
Num(n) == [kind |-> "num", v |-> n]
NaN == [kind |-> "nan", v |-> 0]
PosInfinity == [kind |-> "inf", v |-> 1]
NegInfinity == [kind |-> "inf", v |-> -1]
undefined == [kind |-> "undefined", v |-> 0]

isNaN(a) == a.kind \in {"nan", "undefined"}

rank(a) == IF a.kind = "inf" THEN a.v ELSE 0

\* a + b
jsAdd(a, b) ==
    IF isNaN(a) \/ isNaN(b) THEN NaN
    ELSE IF a.kind = "inf" /\ b.kind = "inf" THEN (IF a.v = b.v THEN a ELSE NaN)
    ELSE IF a.kind = "inf" THEN a
    ELSE IF b.kind = "inf" THEN b
    ELSE Num(a.v + b.v)

\* a - b
jsSub(a, b) == jsAdd(a, IF isNaN(b) THEN NaN ELSE [b EXCEPT !.v = -@])

\* a < b, a <= b; a comparison with NaN is false
jsLess(a, b) ==
    /\ ~isNaN(a) /\ ~isNaN(b)
    /\ rank(a) < rank(b) \/ (a.kind = "num" /\ b.kind = "num" /\ a.v < b.v)

jsLessEq(a, b) == ~isNaN(a) /\ ~isNaN(b) /\ (jsLess(a, b) \/ a = b)

\* toNum of the Rectangle constructor: typeof v === 'number' &&
\* Number.isFinite(v) ? v : 0
toNum(v) == IF v.kind = "num" THEN v.v ELSE 0

\* new Rectangle(x, y, width, height) on any values
newRectangle(x, y, width, height) == Rectangle(toNum(x), toNum(y), toNum(width), toNum(height))

\* an entity with every coordinate and size as the Rectangle constructor
\* sanitizes it; the velocity is finite
sanitized(e) ==
    [x |-> toNum(e.x), y |-> toNum(e.y), width |-> Max(0, toNum(e.width)),
     height |-> Max(0, toNum(e.height)), velocity |-> e.velocity]

\* CollisionDetector.checkPlatformCollision(player, platform) on entities
\* whose x, y, width and height are any values
rawCheckPlatformCollision(body, platform) ==
    LET playerRect == newRectangle(body.x, body.y, body.width, body.height)
        platformRect == newRectangle(platform.x, platform.y, platform.width, platform.height)
        prevX == jsSub(body.x, Num(body.velocity.x))
        prevY == jsSub(body.y, Num(body.velocity.y))
        prevBottom == jsAdd(prevY, body.height)
        currentBottom == jsAdd(body.y, body.height)
        platformTop == platform.y
        currentHorizOverlap ==
            right(playerRect) > left(platformRect) /\ left(playerRect) < right(platformRect)
        prevHorizOverlap ==
            /\ jsLess(Num(left(platformRect)), jsAdd(prevX, body.width))
            /\ jsLess(prevX, Num(right(platformRect)))
        dynamicTolerance == Num(Max(8000, Abs(body.velocity.y)) + 2000)
        ground == [isOnGround |-> TRUE, y |-> jsSub(platformTop, body.height)]
        none == [isOnGround |-> FALSE, y |-> Num(0)]
    IN  IF ~intersects(playerRect, platformRect)
        THEN IF /\ body.velocity.y >= 0
                /\ jsLessEq(prevBottom, platformTop)
                /\ jsLessEq(platformTop, currentBottom)
                /\ (currentHorizOverlap \/ prevHorizOverlap)
             THEN ground
             ELSE none
        ELSE IF /\ body.velocity.y >= 0
                /\ jsLessEq(prevBottom, jsAdd(platformTop, dynamicTolerance))
                /\ jsLessEq(currentBottom, jsAdd(platformTop, dynamicTolerance))
             THEN ground
             ELSE none

\* CollisionDetector.checkEnemyCollision on any values
rawCheckEnemyCollision(p, enemy) ==
    LET playerRect == newRectangle(p.x, p.y, p.width, p.height)
        enemyRect == newRectangle(enemy.x, enemy.y, enemy.width, enemy.height)
    IN  IF \/ playerRect.width <= 0 \/ playerRect.height <= 0
           \/ enemyRect.width <= 0 \/ enemyRect.height <= 0
        THEN FALSE
        ELSE intersects(playerRect, enemyRect)

\* CollisionDetector.checkCoinCollision and checkPowerUpCollision on any values
rawCheckCoinCollision(p, coin) ==
    intersects(newRectangle(p.x, p.y, p.width, p.height),
               newRectangle(coin.x, coin.y, coin.width, coin.height))

rawCheckPowerUpCollision(p, powerUp) ==
    intersects(newRectangle(p.x, p.y, p.width, p.height),
               newRectangle(powerUp.x, powerUp.y, powerUp.width, powerUp.height))

(***************************************************************************)
(* Specification SpecGeometry: Rectangle and the CollisionDetector checks  *)
(* called on their own, on a body and an entity whose coordinates and      *)
(* sizes are any values.  obs holds the two arguments of the last call,    *)
(* whether it reported a collision, and checkPlatformCollision's result.   *)
(***************************************************************************)
GeometryBodies ==
    {[x |-> Num(100000), y |-> y, width |-> Num(PlayerSize), height |-> h,
      velocity |-> Vector2(vx, vy)] :
        y \in {Num(-30000), Num(418000), Num(425000), Num(452000), NaN, PosInfinity, undefined},
        h \in {Num(PlayerSize), Num(-5000), NaN},
        vx \in {0, -80000},
        vy \in {0, 3000, -3000}}

GeometryEntities ==
    {[x |-> x, y |-> y, width |-> w, height |-> Num(20000), velocity |-> Vector2(0, 0)] :
        x \in {Num(90000), Num(132000), NaN},
        y \in {Num(0), Num(450000), NaN, PosInfinity, NegInfinity},
        w \in {Num(120000), Num(-1000), PosInfinity}}

Measured(op, body, entity, collides, landing) ==
    [op |-> op, body |-> body, entity |-> entity, collides |-> collides, landing |-> landing]

InitGeometry ==
    /\ Is(NewWorld)
    /\ rafPending = 0
    /\ now = 0
    /\ steps = 0
    /\ \E body \in GeometryBodies, entity \in GeometryEntities :
         obs = Measured("new", body, entity, FALSE, [isOnGround |-> FALSE, y |-> Num(0)])

\* playerRect.intersects(rect) on the rectangles of the two arguments
Intersects ==
    /\ obs' = [obs EXCEPT !.op = "intersects",
                          !.collides = intersects(
                              newRectangle(obs.body.x, obs.body.y, obs.body.width, obs.body.height),
                              newRectangle(obs.entity.x, obs.entity.y, obs.entity.width, obs.entity.height))]
    /\ UNCHANGED <<player, platforms, enemies, coins, powerUps, game, rafPending, now, steps>>

CheckPlatformCollision ==
    /\ obs' = [obs EXCEPT !.op = "checkPlatformCollision",
                          !.landing = rawCheckPlatformCollision(obs.body, obs.entity),
                          !.collides = rawCheckPlatformCollision(obs.body, obs.entity).isOnGround]
    /\ UNCHANGED <<player, platforms, enemies, coins, powerUps, game, rafPending, now, steps>>

CheckEnemyCollision ==
    /\ obs' = [obs EXCEPT !.op = "checkEnemyCollision",
                          !.collides = rawCheckEnemyCollision(obs.body, obs.entity)]
    /\ UNCHANGED <<player, platforms, enemies, coins, powerUps, game, rafPending, now, steps>>

CheckCoinCollision ==
    /\ obs' = [obs EXCEPT !.op = "checkCoinCollision",
                          !.collides = rawCheckCoinCollision(obs.body, obs.entity)]
    /\ UNCHANGED <<player, platforms, enemies, coins, powerUps, game, rafPending, now, steps>>

CheckPowerUpCollision ==
    /\ obs' = [obs EXCEPT !.op = "checkPowerUpCollision",
                          !.collides = rawCheckPowerUpCollision(obs.body, obs.entity)]
    /\ UNCHANGED <<player, platforms, enemies, coins, powerUps, game, rafPending, now, steps>>

NextGeometry ==
    \/ Intersects
    \/ CheckPlatformCollision
    \/ CheckEnemyCollision
    \/ CheckCoinCollision
    \/ CheckPowerUpCollision

SpecGeometry == InitGeometry /\ [][NextGeometry]_vars

(***************************************************************************)
(* Specification SpecHitstop: the frames after applyHitstop.  Init is a    *)
(* running stage frozen by applyHitstop(90) (a stomp, Player.defeatEnemy)  *)
(* or applyHitstop() (80).  Every step is an animation frame; the frames   *)
(* taken after the hitstop has run out are counted, up to MaxResumed.      *)
(* requestAnimationFrame runs a queued callback in the end, which is the   *)
(* fairness of SpecHitstopFair.                                            *)
(***************************************************************************)
MaxResumed == 2

HitstopTimes == {80, 90}

InitHitstop ==
    /\ \E s \in SessionPoses, lives \in {1, StartLives}, hitstop \in HitstopTimes :
         Holds(Running([Snapshot(s.stage, Posed(s.pose, lives, "none"))
                        EXCEPT !.game.hitstop = hitstop]))
    /\ now = 0
    /\ steps = 0

HitstopFrame(deltaTime, keys, sway) ==
    /\ game.hitstop > 0 \/ steps < MaxResumed
    /\ rafPending > 0
    /\ Deliver(callbacks([w |-> World, queued |-> 0, updates |-> 0,
                          obs |-> Quiet("frame", player)],
                         rafPending, now + deltaTime, keys, sway))
    /\ now' = now + deltaTime
    /\ steps' = IF game.hitstop > 0 THEN steps ELSE steps + 1

NextHitstop ==
    \E deltaTime \in FrameTimes, keys \in FrameKeys, sway \in Sways :
        HitstopFrame(deltaTime, keys, sway)

SpecHitstop == InitHitstop /\ [][NextHitstop]_vars

\* ENABLED <<NextHitstop>>_vars, written out: a callback is queued, and the
\* frame is one of those the specification takes
FrameEnabled == (game.hitstop > 0 \/ steps < MaxResumed) /\ rafPending > 0

\* weak fairness of the animation frame, WF_vars(NextHitstop)
SpecHitstopFair ==
    SpecHitstop /\ ([]<>(~FrameEnabled) \/ []<><<NextHitstop>>_vars)

(***************************************************************************)
(* Specification SpecEnemy: the life of an enemy.  Stage 1 holds one enemy *)
(* of every type on the floor and one that has slipped below the floor.    *)
(* A step is the enemy updates of Game.update, Player.checkEnemyCollisions *)
(* with the player come down on an enemy, or a whole Game.update.          *)
(***************************************************************************)
MaxEnemySteps == 3

\* the enemies of the stage: StompEnemies, and a basic enemy under the floor
EnemyField ==
    StompEnemies \o <<[NewEnemy(700000, CANVAS_HEIGHT - 2000, "basic", 1000)
                       EXCEPT !.velocity.y = 3000]>>

InitEnemy ==
    /\ \E lives \in {1, StartLives} :
         Holds(Running([Snapshot(1, Posed(Pose(RespawnX, StandY, 0, 0, TRUE), lives, "none"))
                        EXCEPT !.enemies = EnemyField]))
    /\ now = 0
    /\ steps = 0

\* Game.update: this.enemies.forEach(enemy => enemy.update(...))
EnemiesUpdate(deltaTime) ==
    /\ steps < MaxEnemySteps
    /\ enemies' = [i \in DOMAIN enemies |->
                      enemyUpdate(enemies[i], deltaTime, platforms, player,
                                  getCurrentStageWidth(game.currentStage))]
    /\ obs' = Quiet("enemiesUpdate", player)
    /\ steps' = steps + 1
    /\ UNCHANGED <<player, platforms, coins, powerUps, game, rafPending, now>>

\* Player.checkEnemyCollisions(enemies), the player come down on enemy i
StompOn(i) ==
    /\ steps < MaxEnemySteps
    /\ player.lives > 0
    /\ Becomes(checkEnemyCollisions([World EXCEPT !.player = Placed(player, Above(i))]))
    /\ obs' = Quiet("checkEnemyCollisions", Placed(player, Above(i)))
    /\ steps' = steps + 1
    /\ UNCHANGED <<rafPending, now>>

\* Game.update, with the player at the pose when it starts
GameUpdate(deltaTime, keys, pose) ==
    /\ steps < MaxEnemySteps
    /\ game.isRunning /\ ~game.gameOver
    /\ Becomes(gameUpdate([World EXCEPT !.player = Placed(player, pose),
                                        !.game.deltaTime = deltaTime,
                                        !.game.lastTime = now + deltaTime],
                          keys, 0))
    /\ obs' = Quiet("gameUpdate", Placed(player, pose))
    /\ now' = now + deltaTime
    /\ steps' = steps + 1
    /\ UNCHANGED rafPending

NextEnemy ==
    \/ EnemiesUpdate(16)
    \/ \E i \in DOMAIN StompEnemies : StompOn(i)
    \/ \E pose \in {Above(1), Above(5), Pose(RespawnX, StandY, 0, 0, TRUE)} :
         GameUpdate(16, Keys(FALSE, FALSE, FALSE, FALSE), pose)

SpecEnemy == InitEnemy /\ [][NextEnemy]_vars

(***************************************************************************)
(* Specification SpecJump: the jump rules of Player.update.  Init draws a  *)
(* player in stage 1 - standing on the floor, walking off the right end of *)
(* the platform, in mid-air with or without its air-jump charge, falling   *)
(* just above the floor with no charge, falling beside either side of the  *)
(* platform - and every step is one Player.update with left, right or no   *)
(* direction held, with or without the jump key.  Besides what Observe     *)
(* records, obs keeps the input and the deltaTime of the update and, as    *)
(* history, the frame time elapsed since the last update that began on the *)
(* ground (airTime), whether a jump has fired since then (jumped), the     *)
(* air jumps fired since the last ground contact (airJumps), the frame     *)
(* time elapsed since the jump key was last held (released) and the side   *)
(* of the wall the player is sliding on (wall), and where the jump key     *)
(* stands since the last jump (phase).  The two times stop counting at the *)
(* length of the windows they are compared with.                           *)
(***************************************************************************)
MaxJumpUpdates == 3

JumpTimes == {16, 60}
JumpKeys ==
    {Keys(l, r, j, FALSE) : l \in BOOLEAN, r \in BOOLEAN, j \in BOOLEAN} \ 
    {Keys(TRUE, TRUE, j, FALSE) : j \in BOOLEAN}

\* the poses, each with the air-jump charges left
JumpPoses ==
    {[pose |-> Pose(100000, StandY, 0, 0, TRUE), charges |-> maxAirJumps],
     [pose |-> Pose(318000, 450000 - PlayerSize, 4000, 0, TRUE), charges |-> maxAirJumps],
     [pose |-> Pose(500000, 300000, 0, 2000, FALSE), charges |-> maxAirJumps],
     [pose |-> Pose(500000, 300000, 0, 2000, FALSE), charges |-> 0],
     [pose |-> Pose(500000, StandY - 10000, 0, 6000, FALSE), charges |-> 0],
     [pose |-> Pose(200000 - PlayerSize - 1000, 440000, 0, 3000, FALSE), charges |-> maxAirJumps],
     [pose |-> Pose(200000 - PlayerSize - 1000, 440000, 0, 3000, FALSE), charges |-> 0],
     [pose |-> Pose(320000 + 1000, 440000, 0, 3000, FALSE), charges |-> maxAirJumps],
     [pose |-> Pose(320000 + 1000, 440000, 0, 3000, FALSE), charges |-> 0]}

\* the history kept next to an observation
History(keys, deltaTime, airTime, jumped, airJumps, released, wall, phase) ==
    [keys |-> keys, deltaTime |-> deltaTime, airTime |-> airTime, jumped |-> jumped,
     airJumps |-> airJumps, released |-> released, wall |-> wall, phase |-> phase]

\* where the jump key stands after an update in which it was down or up:
\* "held" since a jump fired, "released" since then, or "pressed" again
keyPhase(phase, down) ==
    IF down THEN (IF phase = "held" THEN "held" ELSE "pressed")
    ELSE (IF phase = "held" THEN "released" ELSE phase)

InitJump ==
    /\ \E s \in JumpPoses :
         /\ Is(Snapshot(1, [Posed(s.pose, StartLives, "none")
                                EXCEPT !.airJumpsRemaining = s.charges]))
         /\ obs = Quiet("start", player)
                  @@ History(Keys(FALSE, FALSE, FALSE, FALSE), 0,
                             IF s.pose.ground THEN 0 ELSE coyoteTimeMax,
                             s.charges < maxAirJumps, maxAirJumps - s.charges,
                             jumpBufferMax, "none", "released")
    /\ rafPending = 1
    /\ now = 0
    /\ steps = 0

\* Game.update's call this.player.update(deltaTime, ...), with its history
Jumped(deltaTime, keys) ==
    /\ player.lives > 0
    /\ Becomes(update(World, deltaTime, keys))
    /\ obs' = LET seen == Observe("update", World, deltaTime, keys)
              IN  seen @@ History(
                      getMovementInput(keys), deltaTime,
                      IF player.isOnGround THEN 0
                      ELSE Min(coyoteTimeMax, obs.airTime + deltaTime),
                      IF player.isOnGround THEN seen.jump # "none"
                      ELSE obs.jumped \/ seen.jump # "none",
                      IF seen.contacts # {} THEN 0
                      ELSE obs.airJumps + (IF seen.jump = "air" THEN 1 ELSE 0),
                      IF keys.jump THEN 0 ELSE Min(jumpBufferMax, obs.released + deltaTime),
                      IF ~player'.isWallSliding THEN "none"
                      ELSE IF getMovementInput(keys).right THEN "right" ELSE "left",
                      IF seen.jump = "none" THEN keyPhase(obs.phase, keys.jump)
                      ELSE IF keys.jump THEN "held" ELSE "released")
    /\ steps' = steps + 1
    /\ UNCHANGED <<rafPending, now>>

JumpUpdate(deltaTime, keys) == steps < MaxJumpUpdates /\ Jumped(deltaTime, keys)

NextJump == \E deltaTime \in JumpTimes, keys \in JumpKeys : JumpUpdate(deltaTime, keys)

SpecJump == InitJump /\ [][NextJump]_vars

(***************************************************************************)
(* Specification SpecPress: the jump key alone.  Init is the player of     *)
(* stage 1 standing on the floor or in mid-air with its air-jump charge;   *)
(* every step is one Player.update of 16 or 60 ms with the jump key down   *)
(* or up and no other key, up to MaxPressUpdates of them.  obs keeps the   *)
(* history of SpecJump.                                                    *)
(***************************************************************************)
MaxPressUpdates == 4

PressKeys == {Keys(FALSE, FALSE, j, FALSE) : j \in BOOLEAN}

InitPress ==
    /\ \E pose \in {Pose(100000, StandY, 0, 0, TRUE), Pose(500000, 300000, 0, 2000, FALSE)} :
         /\ Is(Snapshot(1, Posed(pose, StartLives, "none")))
         /\ obs = Quiet("start", player)
                  @@ History(Keys(FALSE, FALSE, FALSE, FALSE), 0,
                             IF pose.ground THEN 0 ELSE coyoteTimeMax,
                             FALSE, 0, jumpBufferMax, "none", "released")
    /\ rafPending = 1
    /\ now = 0
    /\ steps = 0

PressUpdate(deltaTime, keys) == steps < MaxPressUpdates /\ Jumped(deltaTime, keys)

NextPress == \E deltaTime \in JumpTimes, keys \in PressKeys : PressUpdate(deltaTime, keys)

SpecPress == InitPress /\ [][NextPress]_vars

(***************************************************************************)
(* Specification SpecDash: the dash of Player.update.  Init draws a player *)
(* standing in stage 1, with or without the dash power-up, at rest or 80   *)
(* ms into a dash; every step is one Player.update with the dash key held  *)
(* or not.  As history obs keeps whether a dash started in the update      *)
(* (started), the cooldown that the last expiry called for (due, 0 before  *)
(* any expiry), the frame time elapsed since that expiry (sinceExpiry,     *)
(* which stops counting at dashCooldownMs) and whether the dash key has    *)
(* been held in every update since (held).                                 *)
(***************************************************************************)
MaxDashUpdates == 6

DashTimes == {100, 400}
DashKeys == {Keys(FALSE, FALSE, FALSE, d) : d \in BOOLEAN}

DashHistory(keys, deltaTime, started, due, sinceExpiry, held) ==
    [keys |-> keys, deltaTime |-> deltaTime, started |-> started, due |-> due,
     sinceExpiry |-> sinceExpiry, held |-> held]

InitDash ==
    /\ \E power \in {"none", "dash"}, dashing \in BOOLEAN :
         Is(Snapshot(1, IF dashing
                        THEN MidDash(Posed(Pose(600000, StandY, 0, 0, TRUE), StartLives, power))
                        ELSE Posed(Pose(600000, StandY, 0, 0, TRUE), StartLives, power)))
    /\ obs = Quiet("start", player)
             @@ DashHistory(Keys(FALSE, FALSE, FALSE, FALSE), 0, FALSE, 0, 0, FALSE)
    /\ rafPending = 1
    /\ now = 0
    /\ steps = 0

\* Game.update's call this.player.update(deltaTime, ...)
DashUpdate(deltaTime, keys) ==
    /\ steps < MaxDashUpdates
    /\ player.lives > 0
    /\ Becomes(update(World, deltaTime, keys))
    /\ obs' = LET started == ~player.isDashing /\ dashStart(player, keys).isDashing
                  expired == (player.isDashing \/ started) /\ ~player'.isDashing
              IN  Observe("update", World, deltaTime, keys)
                  @@ DashHistory(
                      keys, deltaTime, started,
                      IF expired
                      THEN (IF player.powerUps.dash THEN dashCooldownMs \div 2
                            ELSE dashCooldownMs)
                      ELSE obs.due,
                      IF expired THEN 0 ELSE Min(dashCooldownMs, obs.sinceExpiry + deltaTime),
                      IF expired THEN keys.dash ELSE obs.held /\ keys.dash)
    /\ steps' = steps + 1
    /\ UNCHANGED <<rafPending, now>>

NextDash == \E deltaTime \in DashTimes, keys \in DashKeys : DashUpdate(deltaTime, keys)

SpecDash == InitDash /\ [][NextDash]_vars

(***************************************************************************)
(* Specification SpecHurt: damage after damage.  Init is stage 5 with an   *)
(* unprotected player 2 px above the spike floor; every step is one        *)
(* Player.update with no key held and a frame delta of 16 ms or of a full  *)
(* second.  The player lands on the spikes, is respawned at (100, 500) and *)
(* falls onto the spikes again.  As history obs keeps whether a life has   *)
(* been lost (hurt), the frame time of the updates after the one that took *)
(* the last life (sinceDamage) and the same time with the delta of that    *)
(* update added (ticked); both stop counting at InvulnerableMs.            *)
(***************************************************************************)
MaxHurtUpdates == 16

HurtTimes == {16, 1000}

HurtHistory(deltaTime, hurt, sinceDamage, ticked) ==
    [deltaTime |-> deltaTime, hurt |-> hurt, sinceDamage |-> sinceDamage, ticked |-> ticked]

InitHurt ==
    /\ Is(Snapshot(5, Posed(Pose(400000, StandY - 2000, 0, 3000, FALSE), StartLives, "none")))
    /\ obs = Quiet("start", player) @@ HurtHistory(0, FALSE, 0, 0)
    /\ rafPending = 1
    /\ now = 0
    /\ steps = 0

\* Game.update's call this.player.update(deltaTime, ...)
HurtUpdate(deltaTime) ==
    /\ steps < MaxHurtUpdates
    /\ player.lives > 0
    /\ Becomes(update(World, deltaTime, Keys(FALSE, FALSE, FALSE, FALSE)))
    /\ obs' = Observe("update", World, deltaTime, Keys(FALSE, FALSE, FALSE, FALSE))
              @@ HurtHistory(
                  deltaTime,
                  obs.hurt \/ player'.lives < player.lives,
                  IF player'.lives < player.lives THEN 0
                  ELSE Min(InvulnerableMs, obs.sinceDamage + deltaTime),
                  IF player'.lives < player.lives THEN Min(InvulnerableMs, deltaTime)
                  ELSE Min(InvulnerableMs, obs.ticked + deltaTime))
    /\ steps' = steps + 1
    /\ UNCHANGED <<rafPending, now>>

NextHurt == \E deltaTime \in HurtTimes : HurtUpdate(deltaTime)

SpecHurt == InitHurt /\ [][NextHurt]_vars

(***************************************************************************)
(* Specification SpecChase: the chaser of stage 2 and the player it        *)
(* follows.  Init is stage 2 with the other enemies defeated and the       *)
(* chaser on the floor 200 updates into a chase to the left, 60 px from    *)
(* the left edge of the world and far outside its patrol range.  Every     *)
(* step is the enemies' part of one Game.update - Enemy.update sees the    *)
(* player where the last frame left it - after which the player's own      *)
(* update has taken it to one of three places: the left edge of the world, *)
(* high above that edge (out of the chaser's vertical band), and 200 px to *)
(* the right.  obs keeps whether checkBounds clamped the chaser in the     *)
(* update ("left", "right", "none") and the chaser of the last two         *)
(* updates.                                                                *)
(***************************************************************************)
Chaser ==
    [settled(NewEnemy(700000, 250000, "chaser", 1000))
        EXCEPT !.x = @ - 200 * Scale(ENEMY_SPEED, 1600)]

ChasePoses ==
    {Pose(0, StandY, 0, 0, TRUE),
     Pose(0, StandY - 100000, 0, 0, FALSE),
     Pose(200000, StandY, 0, 0, TRUE)}

\* where checkBounds clamps the enemy that has made its move
clampedAt(e, worldWidth) ==
    IF e.x < 0 THEN "left" ELSE IF e.x + e.width > worldWidth THEN "right" ELSE "none"

\* the chaser is outside its patrol range
Outside ==
    \/ enemies[1].x < enemies[1].startX - enemies[1].patrolDistance
    \/ enemies[1].x > enemies[1].startX + enemies[1].patrolDistance

\* the player is out of the chaser's detection range
OutOfRange ==
    ~(Abs(player.x - enemies[1].x) < 220000 /\ Abs(player.y - enemies[1].y) < 80000)

\* what obs keeps of a chase: whether the update clamped the chaser, the
\* chaser before the last update (last) and before the one preceding it
\* (before), and for how many of the last two updates the chaser stood
\* outside its patrol range with the player out of its detection range (away)
Chase(clamped, last, before, away) ==
    [clamped |-> clamped, last |-> last, before |-> before, away |-> away]

InitChase ==
    /\ \E pose \in ChasePoses :
         Is([Snapshot(2, Posed(pose, StartLives, "none")) EXCEPT !.enemies = <<Chaser>>])
    /\ obs = Quiet("start", player) @@ Chase("none", Chaser, Chaser, 0)
    /\ rafPending = 1
    /\ now = 0
    /\ steps = 0

\* Game.update: this.enemies.forEach(enemy => enemy.update(...)), then the
\* player's move
ChaseUpdate(deltaTime, pose) ==
    /\ enemies' = [i \in DOMAIN enemies |->
                      enemyUpdate(enemies[i], deltaTime, platforms, player,
                                  getCurrentStageWidth(game.currentStage))]
    /\ player' = Placed(player, pose)
    /\ obs' = Quiet("enemiesUpdate", player)
              @@ Chase(clampedAt(enemyMove(enemies[1], deltaTime, player),
                                 getCurrentStageWidth(game.currentStage)),
                       enemies[1], obs.last,
                       IF Outside /\ OutOfRange THEN Min(2, obs.away + 1) ELSE 0)
    /\ UNCHANGED <<platforms, coins, powerUps, game, rafPending, now, steps>>

NextChase == \E pose \in ChasePoses : ChaseUpdate(16, pose)

SpecChase == InitChase /\ [][NextChase]_vars

(***************************************************************************)
(* Specification SpecRebound: the frames after a stomp.  Init is stage 2   *)
(* with the tank at rest on the floor and an unprotected player falling    *)
(* onto it, 1 px above its top, at 3 to 12 px per frame; every step is one *)
(* Game.update of 16 ms with a direction or the jump key held or not.  obs *)
(* keeps whether the update was a stomp that the tank survived (stomped).  *)
(***************************************************************************)
MaxReboundFrames == 2

Tank == settled(NewEnemy(1300000, 300000, "tank", 1000))

ReboundPoses ==
    {Pose(Tank.x + dx, Tank.y - PlayerSize - 1000, 0, vy, FALSE) :
        dx \in {-20000, -4000, 12000}, vy \in {2500, 5500, 8500, 11500}}

ReboundKeys ==
    {Keys(FALSE, FALSE, FALSE, FALSE), Keys(FALSE, FALSE, TRUE, FALSE),
     Keys(TRUE, FALSE, FALSE, FALSE), Keys(FALSE, TRUE, FALSE, FALSE)}

InitRebound ==
    /\ \E pose \in ReboundPoses, lives \in 1..StartLives :
         Is([Snapshot(2, Posed(pose, lives, "none")) EXCEPT !.enemies = <<Tank>>])
    /\ obs = Quiet("start", player) @@ [stomped |-> FALSE]
    /\ rafPending = 1
    /\ now = 0
    /\ steps = 0

\* Game.update with deltaTime 16
ReboundFrame(keys) ==
    /\ steps < MaxReboundFrames
    /\ game.isRunning /\ ~game.gameOver
    /\ Becomes(gameUpdate([World EXCEPT !.game.deltaTime = 16, !.game.lastTime = now + 16],
                          keys, 0))
    /\ obs' = Quiet("gameUpdate", player)
              @@ [stomped |-> /\ Len(enemies') = 1
                              /\ enemies'[1].hits > enemies[1].hits
                              /\ ~enemies'[1].isDead]
    /\ now' = now + 16
    /\ steps' = steps + 1
    /\ UNCHANGED rafPending

NextRebound == \E keys \in ReboundKeys : ReboundFrame(keys)

SpecRebound == InitRebound /\ [][NextRebound]_vars

(***************************************************************************)
(* Specification SpecCrowd: a session on stage 2 at the moment the chaser  *)
(* has followed the player into the patrol of the basic enemy: the two     *)
(* enemies stand side by side on the floor and the unprotected player      *)
(* falls onto both, 1 px above their tops.  The steps are those of Spec.   *)
(***************************************************************************)
Crowd ==
    <<[settled(NewEnemy(400000, 350000, "basic", 1000)) EXCEPT !.x = 470000],
      [settled(NewEnemy(700000, 250000, "chaser", 1000)) EXCEPT !.x = 500000]>>

CrowdPoses ==
    {Pose(480000 + dx, Crowd[1].y - PlayerSize - 1000, 0, vy, FALSE) :
        dx \in {-2000, 2000}, vy \in {2500, 5500, 8500}}

InitCrowd ==
    /\ \E pose \in CrowdPoses, lives \in 1..StartLives :
         Holds(Running([Snapshot(2, Posed(pose, lives, "none"))
                           EXCEPT !.enemies = Crowd]))
    /\ now = 0
    /\ steps = 0

SpecCrowd == InitCrowd /\ [][Next]_vars

(***************************************************************************)
(* Properties of a session.                                                *)
(***************************************************************************)
\* C3: in every reachable state of a session the player's lives are between
\* 0 and 3: a player starts with 3, nothing adds a life, an update takes at
\* most one, and no update runs once the lives are 0.
C3_LivesInRange == player.lives \in 0..StartLives

\* a frame took the last life
C3_Witness == obs.op = "frame" /\ obs.updates > 0 /\ obs.pre.lives = 1 /\ player.lives = 0

\* C4: a Game.update that leaves lives <= 0 sets gameOver and clears isRunning
\* in that same update, and from a game-over state on no step other than
\* restart() runs an update or changes the player or any entity.
C4_GameOverStopsUpdates ==
    [][/\ (obs'.updates > 0 /\ player'.lives <= 0) => (game'.gameOver /\ ~game'.isRunning)
       /\ (game.gameOver /\ obs'.op # "restart")
            => /\ obs'.updates = 0
               /\ UNCHANGED <<player, platforms, enemies, coins, powerUps>>]_vars

\* the game is over, and the frame delivered after that ran no update
C4_Witness ==
    /\ game.gameOver /\ ~game.isRunning /\ player.lives = 0
    /\ obs.op = "frame" /\ obs.updates = 0 /\ rafPending = 0

(***************************************************************************)
(* Properties of Player.update.                                            *)
(***************************************************************************)
\* a live enemy the player overlaps
TouchesEnemy == \E i \in DOMAIN enemies : ~enemies[i].isDead /\ checkEnemyCollision(player, enemies[i])

\* C1: a player that is invulnerable or invincible when Player.update starts
\* has the same lives when it returns and has not been respawned, whatever
\* it overlaps: an enemy, a spike platform, the region below the bottom.
C1_ProtectedKeepsLives ==
    (obs.op = "update" /\ (obs.pre.invulnerable \/ obs.pre.powerUps.invincible))
        => (player.lives = obs.pre.lives /\ player.respawns = obs.pre.respawns)

\* a protected player landed on spikes and kept its lives
C1_Witness ==
    /\ obs.op = "update" /\ obs.pre.invulnerable
    /\ "spike" \in obs.contacts
    /\ player.lives = obs.pre.lives

\* C7: velocity.y right after the gravity step of Player.update lies in
\* [-20, MAX_FALL_SPEED], also for a jump made with the jump boost.
C7_FallSpeedClamped ==
    obs.op = "update" => (obs.vyAfterGravity >= MIN_RISE_SPEED /\ obs.vyAfterGravity <= MAX_FALL_SPEED)

\* a boosted jump, cut to -20 by the clamp
C7_Witness ==
    /\ obs.op = "update" /\ obs.pre.powerUps.jumpBoost /\ obs.jump = "ground"
    /\ obs.vyAfterGravity = MIN_RISE_SPEED

\* C8 as stated: |velocity.x| <= MAX_SPEED whenever Player.update returns.
C8_SpeedCapAlways == obs.op = "update" => Abs(player.velocity.x) <= MAX_SPEED

\* C8, amended: when Player.update returns, |velocity.x| <= MAX_SPEED unless
\* a dash is active at the return (then |velocity.x| <= dashSpeed) or a wall
\* jump fired in this call (then |velocity.x| <= WALL_JUMP_X).
C8_SpeedCapOutsideDash ==
    obs.op = "update"
        => Abs(player.velocity.x) <= (IF player.isDashing THEN DASH_SPEED
                                      ELSE IF obs.jump = "wall" THEN WALL_JUMP_X
                                      ELSE MAX_SPEED)

\* a held direction brought the player to exactly MAX_SPEED, no dash active
C8_Witness ==
    /\ obs.op = "update" /\ ~player.isDashing /\ obs.jump = "none"
    /\ obs.pre.velocity.x < MAX_SPEED
    /\ player.velocity.x = MAX_SPEED

\* C9: in every frame in which a dash is active, velocity.x is exactly
\* dashSpeed * dashDirection, both when the position is integrated and when
\* update returns, whatever the directional input and the wind.
C9_DashHoldsSpeed ==
    (obs.op = "update" /\ obs.dashing)
        => /\ obs.atMove.velocity.x = DASH_SPEED * obs.atMove.dashDirection
           /\ player.velocity.x = DASH_SPEED * player.dashDirection

(***************************************************************************)
(* Properties of takeDamage and checkPlatformCollisions.                   *)
(***************************************************************************)
\* C2: takeDamage on a player that is neither invulnerable nor invincible
\* takes exactly one life and starts 2000 ms of invulnerability; if lives
\* remain the player is at the respawn point with velocity (0, 0); if the
\* lives reached 0 its position and velocity are as before the call.
C2_TakeDamage ==
    (obs.op = "takeDamage" /\ ~obs.pre.invulnerable /\ ~obs.pre.powerUps.invincible)
        => /\ player.lives = obs.pre.lives - 1
           /\ player.invulnerable /\ player.invulnerableTime = InvulnerableMs
           /\ player.lives > 0
                => (player.x = RespawnX /\ player.y = RespawnY /\ player.velocity = Vector2(0, 0))
           /\ player.lives <= 0
                => (player.x = obs.pre.x /\ player.y = obs.pre.y
                    /\ player.velocity = obs.pre.velocity)

\* the last life was lost away from the respawn point, while moving
C2_Witness ==
    /\ obs.op = "takeDamage" /\ ~obs.pre.invulnerable /\ ~obs.pre.powerUps.invincible
    /\ player.lives = 0
    /\ obs.pre.x # RespawnX /\ obs.pre.velocity # Vector2(0, 0)
    /\ player.x = obs.pre.x

\* the player, moving down, crossed the top of the platform this frame with
\* horizontal overlap
Crosses(p, platform) ==
    /\ p.velocity.y >= 0
    /\ p.y - p.velocity.y + p.height <= platform.y
    /\ p.y + p.height >= platform.y
    /\ p.x + p.width > platform.x /\ p.x < platform.x + platform.width

CrossesNormal ==
    \E i \in DOMAIN platforms : platforms[i].type = "normal" /\ Crosses(obs.pre, platforms[i])

C6_BounceLaunches ==
    (obs.op = "resolve" /\ "bounce" \in obs.contacts)
        => (~player.isOnGround /\ player.velocity.y = Scale(JUMP_FORCE, 900))

\* the player landed on a normal platform first and was then bounced by the
\* platform processed after it
C6_Witness ==
    /\ obs.op = "resolve" /\ {"normal", "bounce"} \subseteq obs.contacts
    /\ Len(platforms) >= 2 /\ platforms[1].type = "normal" /\ platforms[2].type = "bounce"
    /\ ~player.isOnGround

(***************************************************************************)
(* Properties of stomping.                                                 *)
(***************************************************************************)
\* C10: a tank is alive with health 2 after its first stomp and 1 after its
\* second, nothing else about it changed, and dies by its third; an enemy
\* of any other type dies by its first stomp.
C10_StompsToKill ==
    \A i \in DOMAIN enemies :
        LET enemy == enemies[i]
        IN  IF enemy.type = "tank"
            THEN /\ enemy.isDead <=> enemy.hits = 3
                 /\ enemy = [StompEnemies[i] EXCEPT !.hits = enemy.hits,
                                                    !.health = 3 - enemy.hits,
                                                    !.isDead = (enemy.hits = 3)]
            ELSE /\ enemy.isDead <=> enemy.hits = 1
                 /\ enemy = [StompEnemies[i] EXCEPT !.hits = enemy.hits,
                                                    !.health = 1 - enemy.hits,
                                                    !.isDead = (enemy.hits = 1)]

\* the tank has died by its third stomp
C10_Witness ==
    /\ obs.op = "checkEnemyCollisions"
    /\ \E i \in DOMAIN enemies :
         enemies[i].type = "tank" /\ enemies[i].hits = 3 /\ enemies[i].isDead

\* C11: every stomp - an unprotected player overlapping a live enemy while
\* moving down with its top above the enemy's top - leaves the player with
\* velocity.y = JUMP_FORCE * 0.7 and a higher score, whether or not the enemy
\* dies from it.
C11_StompBouncesAndScores ==
    [][\A i \in DOMAIN enemies :
          (/\ obs'.op = "checkEnemyCollisions"
           /\ ~obs'.pre.invulnerable /\ ~obs'.pre.powerUps.invincible
           /\ ~enemies[i].isDead /\ checkEnemyCollision(obs'.pre, enemies[i])
           /\ obs'.pre.velocity.y > 0 /\ obs'.pre.y < enemies[i].y)
              => /\ player'.velocity.y = Scale(JUMP_FORCE, 700)
                 /\ player'.score > player.score]_vars

\* the bounce alone: what a stomp does to velocity.y
C11_StompBounces ==
    [][\A i \in DOMAIN enemies :
          (/\ obs'.op = "checkEnemyCollisions"
           /\ ~obs'.pre.invulnerable /\ ~obs'.pre.powerUps.invincible
           /\ ~enemies[i].isDead /\ checkEnemyCollision(obs'.pre, enemies[i])
           /\ obs'.pre.velocity.y > 0 /\ obs'.pre.y < enemies[i].y)
              => player'.velocity.y = Scale(JUMP_FORCE, 700)]_vars

(***************************************************************************)
(* Properties of collecting coins and power-ups.                           *)
(***************************************************************************)
collected(coin) == coin.collected

\* the player overlaps the coin, or has the magnet and the coin's centre is
\* within MAGNET_RADIUS of its own
Collectable(p, coin) ==
    \/ checkCoinCollision(p, coin)
    \/ /\ p.powerUps.magnet
       /\ withinRadius((p.x + p.width \div 2) - (coin.x + coin.width \div 2),
                       (p.y + p.height \div 2) - (coin.y + coin.height \div 2),
                       MAGNET_RADIUS)

\* C12: a coin is collected at most once.  collectCoins leaves every coin
\* whose collected flag is set where it is; when every coin of the list is
\* collected already or out of reach, and when the call repeats the one
\* before it at the same place, neither the score nor the list changes.
C12_CoinCollectedOnce ==
    [][obs'.op = "collectCoins" =>
          /\ SelectSeq(coins', collected) = SelectSeq(coins, collected)
          /\ (\A i \in DOMAIN coins : coins[i].collected \/ ~Collectable(obs'.pre, coins[i]))
                => (coins' = coins /\ player'.score = player.score)
          /\ (obs.op = "collectCoins" /\ obs.pre.x = obs'.pre.x /\ obs.pre.y = obs'.pre.y)
                => (coins' = coins /\ player'.score = player.score)]_vars

\* collectCoins ran with the player on a coin that was collected before, and
\* the coin is still in the list
C12_Witness ==
    /\ obs.op = "collectCoins"
    /\ \E i \in DOMAIN coins : coins[i].collected /\ checkCoinCollision(obs.pre, coins[i])

\* C13: collecting a coin - by overlap, or within MAGNET_RADIUS with the
\* magnet - increases the score and removes the coin from the collection.
C13_CoinScoresAndLeaves ==
    [][\A i \in DOMAIN coins :
          (obs'.op = "collectCoins" /\ ~coins[i].collected /\ Collectable(obs'.pre, coins[i]))
              => /\ player'.score > player.score
                 /\ \A j \in DOMAIN coins' : coins'[j] # coins[i]]_vars

\* the removal alone: a coin in reach leaves the collection
C13_CoinLeaves ==
    [][\A i \in DOMAIN coins :
          (obs'.op = "collectCoins" /\ ~coins[i].collected /\ Collectable(obs'.pre, coins[i]))
              => \A j \in DOMAIN coins' : coins'[j] # coins[i]]_vars

KnownPowerUps == {"jump", "invincible", "dash", "magnet"}

\* C19: when the power-ups the player overlaps are all of an unknown type or
\* without a type, collectPowerUps changes nothing: the player's power-up
\* flags and timers and the power-up collection stay as they are.
C19_UnknownPowerUpIgnored ==
    [][(/\ obs'.op = "collectPowerUps"
        /\ \A i \in DOMAIN powerUps :
              checkPowerUpCollision(obs'.pre, powerUps[i]) => powerUps[i].type \notin KnownPowerUps)
          => (player'.powerUps = player.powerUps /\ powerUps' = powerUps)]_vars

\* the part that holds: the player's flags and timers stay
C19_UnknownPowerUpGrantsNothing ==
    [][(/\ obs'.op = "collectPowerUps"
        /\ \A i \in DOMAIN powerUps :
              checkPowerUpCollision(obs'.pre, powerUps[i]) => powerUps[i].type \notin KnownPowerUps)
          => player'.powerUps = player.powerUps]_vars

(***************************************************************************)
(* Properties of Player.reset.                                             *)
(***************************************************************************)
\* C14: after Player.reset(x, y), from any player state, lives = 3,
\* score = 0, invulnerable = false, and the four power-up flags are false
\* with their timers at 0.
C14_ResetRestores ==
    obs.op = "reset"
        => /\ player.lives = 3 /\ player.score = 0 /\ ~player.invulnerable
           /\ \A f \in {"jumpBoost", "invincible", "dash", "magnet"} : ~player.powerUps[f]
           /\ \A f \in {"jumpBoostTime", "invincibleTime", "dashTime", "magnetTime"} :
                 player.powerUps[f] = 0

\* a player that had lost its lives, was invulnerable and held the magnet
\* has been reset
C14_Witness ==
    /\ obs.op = "reset" /\ obs.pre.lives = 0 /\ obs.pre.invulnerable
    /\ obs.pre.powerUps.magnet /\ obs.pre.powerUps.magnetTime > 0
    /\ player.lives = 3

(***************************************************************************)
(* Properties of timers and of deltaTime.                                  *)
(***************************************************************************)
\* C20: whatever deltaTime a Player.update was called with, it ends with
\* velocity.y in [-20, MAX_FALL_SPEED], velocity.x within its limit, and no
\* countdown above its maximum: coyoteTime <= coyoteTimeMax, jumpBuffer <=
\* jumpBufferMax, invulnerableTime <= 2000, dashCooldownTimer <= dashCooldownMs.
C20_ClockGuarded ==
    obs.ran
        => /\ player.velocity.y >= MIN_RISE_SPEED /\ player.velocity.y <= MAX_FALL_SPEED
           /\ Abs(player.velocity.x) <= DASH_SPEED
           /\ player.coyoteTime <= coyoteTimeMax
           /\ player.jumpBuffer <= jumpBufferMax
           /\ player.invulnerableTime <= InvulnerableMs
           /\ player.dashCooldownTimer <= dashCooldownMs

\* the part that holds: the velocities stay within their limits
C20_VelocityGuarded ==
    obs.ran
        => /\ player.velocity.y >= MIN_RISE_SPEED /\ player.velocity.y <= MAX_FALL_SPEED
           /\ Abs(player.velocity.x) <= DASH_SPEED

\* the four power-ups: flag and timer
TimedPowerUps ==
    {<<"jumpBoost", "jumpBoostTime">>, <<"invincible", "invincibleTime">>,
     <<"dash", "dashTime">>, <<"magnet", "magnetTime">>}

\* the timer after a tick of deltaTime: reduced by deltaTime, or held at 0
Ticked(before, after, deltaTime) == after = before - deltaTime \/ after = Max(0, before - deltaTime)

\* C15: every Player.update with deltaTime > 0 ticks each timed effect the
\* player holds - the invulnerability after damage and the four power-ups -
\* down by deltaTime, and the effect's flag is cleared once its timer is at
\* zero (so every effect ends, unless it is granted again).
C15_EffectsTick ==
    [][(obs'.op = "update" /\ now' > now /\ player'.lives = player.lives)
          => /\ player.invulnerable
                  => /\ Ticked(player.invulnerableTime, player'.invulnerableTime, now' - now)
                     /\ player'.invulnerable <=> player'.invulnerableTime > 0
             /\ \A e \in TimedPowerUps :
                  player.powerUps[e[1]]
                      => /\ Ticked(player.powerUps[e[2]], player'.powerUps[e[2]], now' - now)
                         /\ player'.powerUps[e[1]] <=> player'.powerUps[e[2]] > 0]_vars

\* the part that holds: invulnerability, jumpBoost and invincible are ticked
C15_ThreeEffectsTick ==
    [][(obs'.op = "update" /\ now' > now /\ player'.lives = player.lives)
          => /\ player.invulnerable
                  => /\ Ticked(player.invulnerableTime, player'.invulnerableTime, now' - now)
                     /\ player'.invulnerable <=> player'.invulnerableTime > 0
             /\ \A e \in {<<"jumpBoost", "jumpBoostTime">>, <<"invincible", "invincibleTime">>} :
                  player.powerUps[e[1]]
                      => /\ Ticked(player.powerUps[e[2]], player'.powerUps[e[2]], now' - now)
                         /\ player'.powerUps[e[1]] <=> player'.powerUps[e[2]] > 0]_vars

\* the player of the last Player.update as checkBounds received it: moved,
\* and resolved against the platforms (the wall slide changes no position)
BeforeBounds == checkPlatformCollisions(integrate(obs.atMove), platforms, game.currentStage)

\* C16: when Player.update returns, 0 <= x <= stageWidth - width for the
\* width of the current stage, and a player that checkBounds clamped at an
\* edge has no velocity.x pointing out of the stage (>= 0 at the left edge,
\* <= 0 at the right edge).
C16_StaysInStage ==
    obs.op = "update"
        => /\ 0 <= player.x
           /\ player.x <= getCurrentStageWidth(game.currentStage) - player.width
           /\ BeforeBounds.x < 0 => player.velocity.x >= 0
           /\ BeforeBounds.x + BeforeBounds.width > getCurrentStageWidth(game.currentStage)
                  => player.velocity.x <= 0

\* a player running right was clamped at the right edge of stage 2 (which
\* is wider than the canvas) and stopped
C16_Witness ==
    /\ obs.op = "update" /\ game.currentStage = 2
    /\ obs.atMove.velocity.x > 0
    /\ BeforeBounds.x + BeforeBounds.width > getCurrentStageWidth(2)
    /\ player.x = getCurrentStageWidth(2) - player.width
    /\ player.x > CANVAS_WIDTH
    /\ player.velocity.x = 0

\* the rectangles of the last call's two arguments
BodyRect == newRectangle(obs.body.x, obs.body.y, obs.body.width, obs.body.height)
EntityRect == newRectangle(obs.entity.x, obs.entity.y, obs.entity.width, obs.entity.height)

\* a and b share an interval of positive length on both axes
Overlap(a, b) ==
    /\ left(a) < right(b) /\ left(b) < right(a)
    /\ top(a) < bottom(b) /\ top(b) < bottom(a)

\* a and b share a boundary point
Touch(a, b) ==
    /\ left(a) <= right(b) /\ left(b) <= right(a)
    /\ top(a) <= bottom(b) /\ top(b) <= bottom(a)

\* C17: Rectangle.intersects(a, b) is true exactly when a and b overlap on
\* both axes; rectangles that only touch along an edge or at a corner are
\* reported as not intersecting.
C17_IntersectsIsOverlap ==
    obs.op = "intersects" => (obs.collides <=> Overlap(BodyRect, EntityRect))

\* what the code computes: intersects is true exactly when the closed
\* rectangles share a point, touching edges and corners included
C17_IntersectsIsTouch ==
    obs.op = "intersects" => (obs.collides <=> Touch(BodyRect, EntityRect))

\* the finite numbers
Finite(n) == n \in Int

\* C18: a Rectangle built from any inputs has finite x and y and finite
\* width and height >= 0, and each collision check decides as it does on
\* the sanitized values of its two arguments: a non-finite coordinate or
\* size takes no part in its comparisons.
C18_ChecksUseSanitizedValues ==
    /\ Finite(BodyRect.x) /\ Finite(BodyRect.y)
    /\ Finite(BodyRect.width) /\ BodyRect.width >= 0
    /\ Finite(BodyRect.height) /\ BodyRect.height >= 0
    /\ obs.op = "checkEnemyCollision"
           => obs.collides = checkEnemyCollision(sanitized(obs.body), sanitized(obs.entity))
    /\ obs.op = "checkCoinCollision"
           => obs.collides = checkCoinCollision(sanitized(obs.body), sanitized(obs.entity))
    /\ obs.op = "checkPowerUpCollision"
           => obs.collides = checkPowerUpCollision(sanitized(obs.body), sanitized(obs.entity))
    /\ obs.op = "checkPlatformCollision"
           => /\ obs.landing.isOnGround
                    = checkPlatformCollision(sanitized(obs.body), sanitized(obs.entity)).isOnGround
              /\ obs.landing.y
                    = Num(checkPlatformCollision(sanitized(obs.body), sanitized(obs.entity)).y)

\* the part that holds: the rectangles are sanitized, and the enemy, coin
\* and power-up checks decide on the rectangles alone
C18_RectanglesSanitized ==
    /\ Finite(BodyRect.x) /\ Finite(BodyRect.y)
    /\ Finite(BodyRect.width) /\ BodyRect.width >= 0
    /\ Finite(BodyRect.height) /\ BodyRect.height >= 0
    /\ obs.op = "checkEnemyCollision"
           => obs.collides = checkEnemyCollision(sanitized(obs.body), sanitized(obs.entity))
    /\ obs.op = "checkCoinCollision"
           => obs.collides = checkCoinCollision(sanitized(obs.body), sanitized(obs.entity))
    /\ obs.op = "checkPowerUpCollision"
           => obs.collides = checkPowerUpCollision(sanitized(obs.body), sanitized(obs.entity))

\* on finite values checkPlatformCollision is the check of the game
C18_FiniteAgree ==
    (/\ obs.op = "checkPlatformCollision"
     /\ \A f \in {"x", "y", "width", "height"} : obs.body[f].kind = "num" /\ obs.entity[f].kind = "num"
     /\ obs.body.width.v >= 0 /\ obs.body.height.v >= 0)
        => /\ obs.landing.isOnGround
                 = checkPlatformCollision(sanitized(obs.body), sanitized(obs.entity)).isOnGround
           /\ obs.landing.y
                 = Num(checkPlatformCollision(sanitized(obs.body), sanitized(obs.entity)).y)

\* C21: a frame of gameLoop taken while isPaused is true changes no
\* simulation state: the player, the platforms, enemies, coins and
\* power-ups, currentStage, hitstop and the stage-clear state are the same
\* after the frame as before it, for each paused frame of a run.
C21_PausedFrameChangesNothing ==
    [][(game.isPaused /\ obs'.op = "frame")
          => /\ player' = player
             /\ platforms' = platforms /\ enemies' = enemies
             /\ coins' = coins /\ powerUps' = powerUps
             /\ game'.currentStage = game.currentStage
             /\ game'.hitstop = game.hitstop
             /\ game'.stageClear = game.stageClear
             /\ game'.isPaused]_vars

\* a paused game took a frame 2 s long: the loop ran (lastTime follows the
\* clock, a callback is queued) and made no update
C21_Witness ==
    /\ obs.op = "frame" /\ game.isPaused /\ game.isRunning
    /\ game.deltaTime = 2000 /\ game.lastTime = now
    /\ rafPending > 0
    /\ obs.updates = 0

\* a frame taken while hitstop > 0 lowers hitstop by the frame's deltaTime,
\* floored at 0, and changes neither the player, the entities nor the stage
HitstopFreezes ==
    [][(game.hitstop > 0 /\ ~game.isPaused /\ obs'.op = "frame")
          => /\ game'.hitstop = Max(0, game.hitstop - (now' - now))
             /\ player' = player
             /\ platforms' = platforms /\ enemies' = enemies
             /\ coins' = coins /\ powerUps' = powerUps
             /\ game'.currentStage = game.currentStage
             /\ game'.stageClear = game.stageClear
             /\ game'.cameraX = game.cameraX
             /\ game'.gameOver = game.gameOver]_vars

\* the frames after the hitstop has run out update the game again
UpdatesResume ==
    [][(game.hitstop = 0 /\ game.isRunning /\ ~game.gameOver /\ obs'.op = "frame")
          => obs'.updates >= 1 /\ (obs'.ran \/ game.stageClear.active)]_vars

\* C22: while hitstop > 0 an unpaused frame only lowers hitstop by
\* deltaTime (floored at 0) and leaves the player, the entity collections
\* and the stage state unchanged; as frames of positive deltaTime keep
\* arriving hitstop reaches 0, and the frames after that update the game.
C22_HitstopFreezesThenEnds ==
    /\ HitstopFreezes
    /\ UpdatesResume
    /\ (game.hitstop > 0) ~> (game.hitstop = 0)

\* the hitstop has run out and the frame after it moved the player
C22_Witness ==
    /\ obs.op = "frame" /\ game.hitstop = 0 /\ steps = 1
    /\ obs.ran /\ obs.pre # player

\* C23: at most one gameLoop callback chain is active: a running game has
\* at most one gameLoop callback pending, and an animation frame runs
\* Game.update at most once.
C23_OneLoopChain ==
    /\ game.isRunning => rafPending <= 1
    /\ obs.op = "frame" => obs.updates <= 1

\* what holds: a game that is not running queues no further callback, so
\* its chain ends with the frame after endGame
C23_StoppedLoopEnds ==
    [][(~game.isRunning /\ obs'.op = "frame") => (rafPending' = 0 /\ obs'.updates = 0)]_vars

\* the step completes a stage-clear sequence: the sequence was active and
\* its timer ran out in this frame
ClearCompletes ==
    /\ obs'.op = "frame"
    /\ game.stageClear.active /\ ~game'.stageClear.active

\* C24: currentStage stays within 1..maxStages; it changes only by growing
\* by exactly 1 in the frame that completes a stage-clear sequence, or by
\* returning to 1 in restart(); while a sequence is active, frames spent at
\* the right edge change nothing about the stage; and completing the
\* stage-clear of the last stage sets gameOver and leaves currentStage.
C24_StageAdvancesByOne ==
    /\ [](game.currentStage \in 1..maxStages)
    /\ [][/\ game'.currentStage # game.currentStage
               => \/ obs'.op = "restart" /\ game'.currentStage = 1
                  \/ ClearCompletes /\ game'.currentStage = game.currentStage + 1
          /\ (ClearCompletes /\ game.currentStage < maxStages)
               => game'.currentStage = game.currentStage + 1 /\ ~game'.gameOver
          /\ (ClearCompletes /\ game.currentStage = maxStages)
               => game'.currentStage = maxStages /\ game'.gameOver]_vars

\* a player that reached the right edge of stage 1 is at the start of
\* stage 2, the stage-clear sequence over
C24_Witness ==
    /\ obs.op = "frame" /\ game.currentStage = 2
    /\ ~game.stageClear.active /\ game.stageClear.timer <= 0
    /\ player.celebrate.timer > 0
    /\ ~game.gameOver

\* the number of live enemies
Alive(es) == Cardinality({i \in DOMAIN es : ~es[i].isDead})

\* C25: a dead enemy stays dead and where it is - its update and the
\* player's collision check change nothing about it - and a Game.update
\* that starts with live enemies only ends with live enemies only: an enemy
\* that died in it, by a fall or by a stomp, has left the collection, and
\* no dead enemy came back.
C25_DeadEnemyStaysDeadAndLeaves ==
    [][/\ obs'.op \in {"enemiesUpdate", "checkEnemyCollisions"}
            => \A i \in DOMAIN enemies :
                   enemies[i].isDead => (i \in DOMAIN enemies' /\ enemies'[i] = enemies[i])
       /\ obs'.op = "gameUpdate"
            => /\ Alive(enemies') <= Alive(enemies)
               /\ Alive(enemies) = Len(enemies) => Alive(enemies') = Len(enemies')]_vars

\* the first step was a Game.update in which the fallen enemy and a stomped
\* one died, and both have left the collection
C25_Witness ==
    /\ obs.op = "gameUpdate" /\ steps = 1
    /\ game.hitstop = 90
    /\ Len(enemies) = Len(EnemyField) - 2
    /\ \A i \in DOMAIN enemies : ~enemies[i].isDead

\* C26: after Player.reset(x, y) every gameplay field is that of a newly
\* constructed Player at the same position, whatever the player was before:
\* the dash state, the wall state, surfaceFrictionScale and the celebration
\* included (respawns is the model's history counter).
C26_ResetIsNewPlayer ==
    obs.op = "reset" => [player EXCEPT !.respawns = 0] = NewPlayer(player.x, player.y)

\* what holds: the fields that reset assigns are those of a new Player
C26_ResetAssignedFields ==
    obs.op = "reset"
        => \A f \in {"velocity", "isOnGround", "facingRight", "lives", "score", "invulnerable",
                     "invulnerableTime", "jumpPressed", "coyoteTime", "jumpBuffer",
                     "airJumpsRemaining", "powerUps"} :
               player[f] = NewPlayer(player.x, player.y)[f]

(***************************************************************************)
(* Properties of the jump rules (SpecJump).                                *)
(***************************************************************************)
ChargesInRange ==
    /\ player.airJumpsRemaining \in 0..maxAirJumps
    /\ obs.airJumps <= maxAirJumps

\* what one update does to the charges
ChargeStep ==
    /\ obs'.jump = "air"
           => /\ player.airJumpsRemaining > 0
              /\ obs'.atMove.airJumpsRemaining = player.airJumpsRemaining - 1
    /\ obs'.jump \in {"ground", "wall"}
           => obs'.atMove.airJumpsRemaining = player.airJumpsRemaining
    /\ obs'.contacts # {} => player'.airJumpsRemaining = maxAirJumps
    /\ obs'.contacts = {} => player'.airJumpsRemaining = obs'.atMove.airJumpsRemaining

ChargeRules == [][ChargeStep]_vars

\* C27: airJumpsRemaining stays within 0..maxAirJumps and at most maxAirJumps
\* air jumps fire between two ground contacts; an air jump takes one charge,
\* a ground (or coyote) jump and a wall jump take none, nothing but a ground
\* contact gives charges back, and every ground contact that platform
\* resolution reports leaves the charges at maxAirJumps.
C27_AirJumpCharges == []ChargesInRange /\ ChargeRules

\* an air jump has fired in mid-air, after the coyote window, and has taken
\* the one charge
C27_Witness ==
    /\ obs.op = "update" /\ obs.jump = "air" /\ ~obs.pre.isOnGround
    /\ obs.pre.airJumpsRemaining = maxAirJumps
    /\ obs.airJumps = maxAirJumps /\ player.airJumpsRemaining = 0

\* an update that begins in mid-air, off any wall, with no jump fired since
\* the player was last on the ground, and in which the jump key goes down
CoyotePress ==
    /\ ~player.isOnGround /\ ~player.isWallSliding
    /\ ~obs.jumped
    /\ ~obs.keys.jump /\ obs'.keys.jump

CoyoteStep ==
    CoyotePress
        => IF obs'.airTime < coyoteTimeMax
           THEN /\ obs'.jump = "ground"
                /\ obs'.vyAfterGravity
                       = JUMP_FORCE + Scale(GRAVITY, game.environment.gravityScale)
                /\ obs'.atMove.airJumpsRemaining = player.airJumpsRemaining
           ELSE obs'.jump = IF player.airJumpsRemaining > 0 THEN "air" ELSE "none"

\* C28: when the player has left the ground without jumping and the jump
\* key goes down in an update by which less than coyoteTimeMax (120 ms) of
\* frame time has passed since the last update that began on the ground, a
\* ground jump fires with the full jump force and takes no air-jump charge;
\* when 120 ms or more have passed, the press fires an air jump if a charge
\* is left and nothing otherwise.
C28_CoyoteWindow == [][CoyoteStep]_vars

\* a ground jump has fired in mid-air, two updates after the player walked
\* off the platform
C28_Witness ==
    /\ obs.op = "update" /\ obs.jump = "ground" /\ ~obs.pre.isOnGround
    /\ obs.airTime \in 1..(coyoteTimeMax - 1)
    /\ player.velocity.y < 0 /\ player.airJumpsRemaining = maxAirJumps
    /\ steps = MaxJumpUpdates

\* the player has just landed: the last update began in mid-air with no
\* air-jump charge, fired no jump and ended on the ground, and no jump has
\* fired for the key as it is held
Landed ==
    /\ obs.op = "update" /\ ~obs.pre.isOnGround /\ obs.pre.airJumpsRemaining = 0
    /\ obs.jump = "none" /\ obs.contacts # {}
    /\ player.isOnGround /\ ~player.jumpPressed

\* C29 as the specification states it: the player who lands while the jump
\* key is held, or less than jumpBufferMax (120 ms) of frame time after it
\* was let go, makes a ground jump in the first update after the landing;
\* the player who lands later makes none, unless the key goes down again.
C29_BufferedAtLanding ==
    [][Landed => IF obs.released < jumpBufferMax
                 THEN obs'.jump = "ground"
                 ELSE obs'.keys.jump \/ obs'.jump = "none"]_vars

\* C29, amended: the buffer is read in the update after the landing, once
\* that update's own deltaTime has been taken off it.  The ground jump fires
\* in that update exactly when the key is held in it or was let go less than
\* 120 ms of frame time before it, that update's deltaTime included.
C29_BufferedAtNextUpdate ==
    [][Landed => (obs'.jump = "ground" <=> obs'.released < jumpBufferMax)]_vars

\* the key went down in mid-air, was let go before the landing, and the
\* ground jump has fired in the update after the landing
C29_Witness ==
    /\ obs.op = "update" /\ obs.jump = "ground" /\ obs.pre.isOnGround
    /\ ~obs.keys.jump /\ obs.released \in 1..(jumpBufferMax - 1)
    /\ obs.pre.jumpBuffer > 0 /\ obs.pre.jumpBuffer < jumpBufferMax
    /\ steps = MaxJumpUpdates

\* the direction that leads away from the wall the player slides on
Away == IF obs.wall = "left" THEN 1 ELSE -1

\* C30: a wall jump - a jump fired while isWallSliding - sets velocity.x to
\* WALL_JUMP_X directed away from the wall the player was sliding on
\* (positive off a wall on the left, negative off a wall on the right), also
\* while the player keeps pressing toward that wall, and starts the 120 ms
\* lock.
C30_WallJumpLeavesWall ==
    [][obs'.jump = "wall"
          => /\ obs.wall # "none"
             /\ obs'.atMove.velocity.x = WALL_JUMP_X * Away
             /\ obs'.atMove.wallJumpLockTimer = WallJumpLockMs]_vars

\* what holds: a wall jump fires only off a wall the player was sliding on,
\* sets velocity.x to WALL_JUMP_X toward the side the player faces after the
\* horizontal step of the same update - toward the wall, when the key toward
\* it is still held - and starts the lock and ends the slide.
C30_WallJumpFollowsFacing ==
    [][obs'.jump = "wall"
          => /\ obs.wall # "none" /\ player.isWallSliding
             /\ obs'.atMove.velocity.x
                    = WALL_JUMP_X * (IF obs'.keys.right THEN 1
                                     ELSE IF obs'.keys.left THEN -1
                                     ELSE IF player.facingRight THEN 1 ELSE -1)
             /\ obs'.atMove.wallJumpLockTimer = WallJumpLockMs
             /\ ~obs'.atMove.isWallSliding]_vars

(***************************************************************************)
(* Properties of the dash (SpecDash).                                      *)
(***************************************************************************)
DashStep ==
    obs'.started
        => /\ ~player.isDashing
           /\ player.dashCooldownTimer <= 0
           /\ obs'.keys.dash
           /\ obs.due > 0 => obs.sinceExpiry + obs'.deltaTime >= obs.due

\* C31: a dash starts only in an update that begins with no dash active and
\* dashCooldownTimer <= 0 (and the dash key down); once a dash has expired,
\* no dash starts before dashCooldownMs = 700 ms of frame time - 350 ms when
\* the dash power-up was active at the expiry - have passed, whether or not
\* the dash key is held all the while.
C31_DashCooldown == [][DashStep]_vars

\* a second dash has started, with the dash key held ever since the first
\* one expired, 700 ms or more before
C31_Witness ==
    /\ obs.op = "update" /\ obs.started /\ obs.held
    /\ obs.due = dashCooldownMs /\ player.isDashing
    /\ ~obs.pre.isDashing /\ obs.pre.dashCooldownTimer <= 0 /\ obs.pre.dashTimer < 0

(***************************************************************************)
(* Spikes (SpecOps).                                                       *)
(***************************************************************************)
\* checkPlatformCollisions has run on an unprotected player that made ground
\* contact with a spike platform and with no bounce platform
SpikeLanding ==
    /\ obs.op = "resolve" /\ "spike" \in obs.contacts /\ "bounce" \notin obs.contacts
    /\ ~obs.pre.invulnerable /\ ~obs.pre.powerUps.invincible

\* C32: landing on a spike platform while unprotected zeroes velocity.y,
\* leaves the player grounded (isOnGround = true) at the end of platform
\* resolution, and costs exactly one life.
C32_SpikeGroundsAndHurts ==
    SpikeLanding
        => /\ player.velocity.y = 0
           /\ player.isOnGround
           /\ player.lives = obs.pre.lives - 1

\* what holds: velocity.y is 0 and exactly one life is lost; the player is
\* left grounded only when that was its last life, and is otherwise moved to
\* the respawn point with isOnGround = false.
C32_SpikeHurtsOnce ==
    SpikeLanding
        => /\ player.velocity.y = 0
           /\ player.lives = obs.pre.lives - 1
           /\ player.isOnGround <=> player.lives = 0
           /\ player.lives > 0 => player.x = RespawnX /\ player.y = RespawnY

(***************************************************************************)
(* Damage after damage (SpecHurt).                                         *)
(***************************************************************************)
\* C33: two losses of a life are at least 2000 ms of frame time apart: when
\* an update takes a life and a life was taken before, the deltas of the
\* updates after the one that took the earlier life, this update's
\* included, sum to 2000 ms or more.
C33_DamageTwoSecondsApart ==
    [][(obs.hurt /\ player'.lives < player.lives)
          => obs.sinceDamage + obs'.deltaTime >= InvulnerableMs]_vars

\* what holds: the window also counts the delta of the update that took the
\* earlier life - the tick at the end of that update already runs on the
\* fresh invulnerableTime - and an update takes at most one life.
C33_WindowCountsDamageFrame ==
    [][/\ player'.lives >= player.lives - 1
       /\ (obs.hurt /\ player'.lives < player.lives) => obs.ticked >= InvulnerableMs]_vars

(***************************************************************************)
(* Enemies at the edges and on patrol (SpecChase).                         *)
(***************************************************************************)
\* C34: a grounded enemy that checkBounds clamped at a world edge travels
\* away from that edge in its next update and is not clamped there again.
C34_ClampedEnemyLeavesEdge ==
    [][/\ obs.clamped = "left" => enemies'[1].x > enemies[1].x /\ obs'.clamped = "none"
       /\ obs.clamped = "right" => enemies'[1].x < enemies[1].x /\ obs'.clamped = "none"]_vars

\* what holds: the clamp puts the enemy on the edge with `direction` set
\* toward the inside of the world.
C34_ClampSetsDirection ==
    /\ obs.clamped = "left" => enemies[1].x = 0 /\ enemies[1].direction = 1
    /\ obs.clamped = "right"
         => /\ enemies[1].x = getCurrentStageWidth(game.currentStage) - enemies[1].width
            /\ enemies[1].direction = -1

\* C35: a chaser that a chase has taken outside [startX - patrolDistance,
\* startX + patrolDistance] re-enters that range once the player is out of
\* its detection range and stays out.  The enemy update is a function of the
\* chaser alone while the player is out of range, so a chaser that returns
\* never comes back to the very state it was in two updates earlier: no
\* state has the chaser outside with the player out of range, as in the two
\* states before it, and the chaser equal to what it was two updates ago.
C35_ChaserReturns ==
    ~(obs.away = 2 /\ Outside /\ OutOfRange /\ enemies[1] = obs.before)

\* what holds: outside its patrol range, with the player out of range, the
\* chaser turns round in every update, so that it steps back and forth on
\* the spot (or is clamped at the edge again).
C35_ChaserTurnsEveryUpdate ==
    [][(Outside /\ OutOfRange /\ obs'.clamped = "none")
          => /\ enemies'[1].direction = -enemies[1].direction
             /\ Abs(enemies'[1].x - enemies[1].x) = Scale(ENEMY_SPEED, 1100)]_vars

(***************************************************************************)
(* One jump per press (SpecPress).                                         *)
(***************************************************************************)
\* C36: at most one jump of any kind fires per continuous press of the jump
\* key: a jump fires only in an update by which, since the last jump, the
\* key has been up in some update and has gone down after that.
C36_OneJumpPerPress ==
    [][obs'.jump # "none" => keyPhase(obs.phase, obs'.keys.jump) = "pressed"]_vars

\* what holds: no jump fires while the key is held on from the jump before;
\* a jump fires in the update of a new press or, from the buffer that the
\* held key kept full, in an update after the release.
C36_NoJumpWhileHeld ==
    [][obs'.jump # "none" => keyPhase(obs.phase, obs'.keys.jump) # "held"]_vars

(***************************************************************************)
(* After a stomp (SpecRebound).                                            *)
(***************************************************************************)
\* C37: in the update that follows a stomp which the tank survived, the
\* player loses no life to the tank it is rebounding from.
C37_NoDamageAfterStomp ==
    [][obs.stomped => player'.lives = player.lives]_vars

\* what holds: the stomp itself costs no life, leaves the tank alive with
\* one health less and sends the player up at JUMP_FORCE * 0.7 without any
\* protection.
C37_StompRebounds ==
    obs.stomped
        => /\ player.lives = obs.pre.lives
           /\ player.velocity.y = Scale(JUMP_FORCE, 700)
           /\ ~player.invulnerable
           /\ enemies[1].health = 2

(***************************************************************************)
(* Restart (Spec).                                                         *)
(***************************************************************************)
\* C38: the deltaTime with which gameLoop calls update is never negative,
\* in the frames that requestAnimationFrame delivers, at start() and in the
\* gameLoop call that restart() makes.
C38_DeltaTimeNotNegative == obs.updates > 0 => game.deltaTime >= 0

\* what holds: the frames that requestAnimationFrame delivers update with a
\* deltaTime >= 0; a negative deltaTime comes from the gameLoop(0) call of a
\* restart, which subtracts the time of the last frame from 0 and leaves
\* lastTime = 0.
C38_FramesNotNegative ==
    /\ (obs.op \in {"start", "frame"} /\ obs.updates > 0) => game.deltaTime >= 0
    /\ game.deltaTime < 0 => game.lastTime = 0
    /\ obs.op = "restart" => game.deltaTime <= 0 /\ game.deltaTime >= -now

\* C39: a restart() made when the previous run has ended (gameOver is set)
\* leaves the session of a fresh start: stage 1, the camera at 0, gameOver
\* and isPaused false, a new default player (3 lives, score 0),
\* stageClear.active false and hitstop 0, so that the update which restart()
\* makes through start() is a normal one that reaches the player.
C39_RestartIsFreshStart ==
    [][(game.gameOver /\ obs'.op = "restart")
          => /\ game'.currentStage = 1 /\ game'.cameraX = 0
             /\ ~game'.gameOver /\ ~game'.isPaused
             /\ player'.lives = StartLives /\ player'.score = 0
             /\ ~game'.stageClear.active /\ game'.hitstop = 0
             /\ obs'.ran]_vars

\* what holds: restart() resets the stage, the camera, the flags, the level
\* and the player, and leaves the loop running.
C39_RestartResetsStage ==
    obs.op = "restart"
        => /\ game.currentStage = 1 /\ game.cameraX = 0
           /\ ~game.gameOver /\ ~game.isPaused /\ game.isRunning
           /\ player.lives = StartLives /\ player.score = 0
           /\ platforms = StagePlatforms(1) /\ Len(coins) = Len(StageCoins(1))

\* C40: after Player.reset(x, y) with finite coordinates the player is at
\* exactly (x, y), x = 0 and y = 0 included; an omitted argument gives the
\* default 100 or 500.
C40_ResetPlacesPlayer ==
    obs.op = "reset"
        => /\ player.x = (IF obs.at.x.kind = "num" THEN obs.at.x.v ELSE RespawnX)
           /\ player.y = (IF obs.at.y.kind = "num" THEN obs.at.y.v ELSE RespawnY)

\* what holds: a coordinate other than 0 is taken as given; an omitted one
\* and a 0 give the default.
C40_ResetPlacesNonZero ==
    obs.op = "reset"
        => /\ player.x = (IF obs.at.x.kind = "num" /\ obs.at.x.v # 0
                          THEN obs.at.x.v ELSE RespawnX)
           /\ player.y = (IF obs.at.y.kind = "num" /\ obs.at.y.v # 0
                          THEN obs.at.y.v ELSE RespawnY)

====
